---- MODULE Spec2Model ----
(***************************************************************************)
(* Boombox design system: the token trees with their path-lookup helpers   *)
(* and utility functions, and the Button variant resolver.                 *)
(*                                                                         *)
(* JavaScript values are tagged records.  A string that the code takes     *)
(* apart or puts together (a dotted path, a class list, an error message)  *)
(* is a Text: the sequence of its atoms, where the separator character     *)
(* ("." in a path, " " in a class list) is an atom of its own and every    *)
(* other atom is a maximal run of non-separator characters.  A string the  *)
(* code only passes around (a token value, a property key) is a TLA+       *)
(* string.                                                                 *)
(***************************************************************************)
EXTENDS Integers, Sequences, FiniteSets, TLC

VARIABLES
  store,      \* the token trees the tokens modules hold
  onLoad,     \* history: what each call answered when the modules had just loaded
  last,       \* the call made last, with its outcome
  ncalls,     \* the calls made so far
  resolvers,  \* the resolver functions obtained from getButtonVariants() so far
  mounted,    \* the Button rendered last: the component, its props and its element
  handled,    \* how often the onClick handler of the mounted Button has run
  now,        \* what Date.now() reads, in ms
  wait,       \* the testUtils.waitFor call: its promise, its timers, its polls
  run         \* the run of the CI workflow: its jobs and the artifacts uploaded

vars == <<store, onLoad, last, ncalls, resolvers, mounted, handled, now, wait, run>>

\* ------------------------------------------------------------ JS values

Str(s) == [t |-> "string", s |-> s]

Text(atoms) == [t |-> "string", atoms |-> atoms]

Num(n) == [t |-> "number", n |-> n]

NaN == [t |-> "number", nan |-> TRUE]

Obj(own) == [t |-> "object", own |-> own]

Arr(elems) == [t |-> "array", elems |-> elems]

Fn(name) == [t |-> "function", name |-> name]

Null == [t |-> "null"]

Undefined == [t |-> "undefined"]

\* Object.prototype and Array.prototype, the objects every literal inherits from
ObjectPrototype == [t |-> "Object.prototype"]

ArrayPrototype == [t |-> "Array.prototype"]

\* typeof value
TypeOf(value) ==
  CASE value.t \in {"object", "array", "null", "Object.prototype", "Array.prototype"} -> "object"
    [] OTHER -> value.t

\* ToBoolean(value), as `value && ...` and `a || b` apply it
Truthy(value) ==
  CASE value.t \in {"null", "undefined"} -> FALSE
    [] value.t = "string" -> IF "atoms" \in DOMAIN value THEN value.atoms /= <<>> ELSE value.s /= ""
    [] value.t = "number" -> IF "nan" \in DOMAIN value THEN FALSE ELSE value.n /= 0
    [] value.t = "boolean" -> value.b
    [] OTHER -> TRUE

\* the property names of Object.prototype
ObjectPrototypeKeys ==
  {"constructor", "__defineGetter__", "__defineSetter__", "hasOwnProperty",
   "__lookupGetter__", "__lookupSetter__", "isPrototypeOf", "propertyIsEnumerable",
   "toString", "valueOf", "__proto__", "toLocaleString"}

\* the property names of Array.prototype ("length" is its own data property)
ArrayPrototypeKeys ==
  {"length", "constructor", "at", "concat", "copyWithin", "fill", "find", "findIndex",
   "findLast", "findLastIndex", "lastIndexOf", "pop", "push", "reverse", "shift",
   "unshift", "slice", "sort", "splice", "includes", "indexOf", "join", "keys",
   "entries", "values", "forEach", "filter", "flat", "flatMap", "map", "every",
   "some", "reduce", "reduceRight", "toLocaleString", "toString", "toReversed",
   "toSorted", "toSpliced", "with"}

\* the index keys "0", "1", ... of an array
IndexKeys(value) == {ToString(i) : i \in 0 .. Len(value.elems) - 1}

IndexOfKey(value, key) == CHOOSE i \in 0 .. Len(value.elems) - 1 : ToString(i) = key

\* the own property names of a value of the token data
OwnKeys(value) ==
  CASE value.t = "object" -> DOMAIN value.own
    [] value.t = "array" -> IndexKeys(value) \cup {"length"}
    [] value.t = "Object.prototype" -> ObjectPrototypeKeys
    [] value.t = "Array.prototype" -> ArrayPrototypeKeys
    [] OTHER -> {}

\* `key in value` for a value whose typeof is "object" and that is not null:
\* own properties and those found along the prototype chain
HasProperty(value, key) ==
  CASE value.t = "object" -> key \in DOMAIN value.own \cup ObjectPrototypeKeys
    [] value.t = "array" ->
         key \in IndexKeys(value) \cup ArrayPrototypeKeys \cup ObjectPrototypeKeys
    [] value.t = "Object.prototype" -> key \in ObjectPrototypeKeys
    [] value.t = "Array.prototype" -> key \in ArrayPrototypeKeys \cup ObjectPrototypeKeys
    [] OTHER -> FALSE

\* what Object.prototype holds under key
ObjectPrototypeGet(key) ==
  CASE key = "__proto__" -> Null
    [] key = "constructor" -> Fn("Object")
    [] key \in ObjectPrototypeKeys -> Fn(key)
    [] OTHER -> Undefined

\* what Array.prototype holds under key
ArrayPrototypeGet(key) ==
  CASE key = "length" -> Num(0)
    [] key = "constructor" -> Fn("Array")
    [] key = "__proto__" -> ObjectPrototype
    [] key \in ArrayPrototypeKeys -> Fn(key)
    [] OTHER -> ObjectPrototypeGet(key)

\* value[key]: the own property, else the inherited one, else undefined
Get(value, key) ==
  CASE value.t = "object" ->
         IF key \in DOMAIN value.own THEN value.own[key]
         ELSE IF key = "__proto__" THEN ObjectPrototype
         ELSE ObjectPrototypeGet(key)
    [] value.t = "array" ->
         IF key \in IndexKeys(value) THEN value.elems[IndexOfKey(value, key) + 1]
         ELSE IF key = "length" THEN Num(Len(value.elems))
         ELSE IF key = "__proto__" THEN ArrayPrototype
         ELSE ArrayPrototypeGet(key)
    [] value.t = "Object.prototype" -> ObjectPrototypeGet(key)
    [] value.t = "Array.prototype" -> ArrayPrototypeGet(key)
    [] OTHER -> Undefined

\* a member expression of the source, such as colors.semantic.error[500]
RECURSIVE At(_, _)
At(value, keys) ==
  IF keys = <<>> THEN value ELSE At(Get(value, Head(keys)), Tail(keys))

\* ------------------------------------------------ hex colour to rgb channels

\* the digits parseInt accepts in radix 16, in either case, by value
HexDigits ==
  <<{"0"}, {"1"}, {"2"}, {"3"}, {"4"}, {"5"}, {"6"}, {"7"}, {"8"}, {"9"},
    {"a", "A"}, {"b", "B"}, {"c", "C"}, {"d", "D"}, {"e", "E"}, {"f", "F"}>>

IsHexDigit(c) == \E i \in DOMAIN HexDigits : c \in HexDigits[i]

HexValue(c) == (CHOOSE i \in DOMAIN HexDigits : c \in HexDigits[i]) - 1

\* str.replace('#', ''): the first '#' is dropped
replaceHash(cs) ==
  IF \E i \in 1 .. Len(cs) : cs[i] = "#"
  THEN LET i == CHOOSE j \in 1 .. Len(cs) : cs[j] = "#" /\ \A k \in 1 .. j - 1 : cs[k] /= "#"
       IN SubSeq(cs, 1, i - 1) \o SubSeq(cs, i + 1, Len(cs))
  ELSE cs

\* str.match(/.{2}/g): the successive pairs of characters, null when there is none
matchPairs(cs) ==
  IF Len(cs) < 2 THEN Null
  ELSE Arr([i \in 1 .. (Len(cs) \div 2) |-> <<cs[2 * i - 1], cs[2 * i]>>])

\* parseInt(hex) of a pair of characters, the radix left out
parseInt16_radix10(pair) ==
  IF ~IsHexDigit(pair[1]) \/ HexValue(pair[1]) > 9 THEN NaN
  ELSE IF ~IsHexDigit(pair[2]) \/ HexValue(pair[2]) > 9 THEN Num(HexValue(pair[1]))
  ELSE Num(10 * HexValue(pair[1]) + HexValue(pair[2]))

\* parseInt(hex, 16) of a pair of characters
parseInt16(pair) ==
  IF ~IsHexDigit(pair[1]) THEN NaN
  ELSE IF ~IsHexDigit(pair[2]) THEN Num(HexValue(pair[1]))
  ELSE Num(16 * HexValue(pair[1]) + HexValue(pair[2]))

\* String(number), as join and a template literal apply it
numberToString(v) == IF "nan" \in DOMAIN v THEN "NaN" ELSE ToString(v.n)

\* array.join(' ')
RECURSIVE joinSpace(_)
joinSpace(strs) ==
  IF strs = <<>> THEN ""
  ELSE IF Len(strs) = 1 THEN strs[1]
  ELSE strs[1] \o " " \o joinSpace(Tail(strs))

\* the characters of each colour string of the colors tree
chars ==
  ("#047857" :> <<"#", "0", "4", "7", "8", "5", "7">>) @@
  ("#059669" :> <<"#", "0", "5", "9", "6", "6", "9">>) @@
  ("#06b6d4" :> <<"#", "0", "6", "b", "6", "d", "4">>) @@
  ("#0891b2" :> <<"#", "0", "8", "9", "1", "b", "2">>) @@
  ("#10b981" :> <<"#", "1", "0", "b", "9", "8", "1">>) @@
  ("#222222" :> <<"#", "2", "2", "2", "2", "2", "2">>) @@
  ("#2d2d2d" :> <<"#", "2", "d", "2", "d", "2", "d">>) @@
  ("#404040" :> <<"#", "4", "0", "4", "0", "4", "0">>) @@
  ("#64748b" :> <<"#", "6", "4", "7", "4", "8", "b">>) @@
  ("#71717a" :> <<"#", "7", "1", "7", "1", "7", "a">>) @@
  ("#94a3b8" :> <<"#", "9", "4", "a", "3", "b", "8">>) @@
  ("#a1a1aa" :> <<"#", "a", "1", "a", "1", "a", "a">>) @@
  ("#a5f3fc" :> <<"#", "a", "5", "f", "3", "f", "c">>) @@
  ("#a7f3d0" :> <<"#", "a", "7", "f", "3", "d", "0">>) @@
  ("#b91c1c" :> <<"#", "b", "9", "1", "c", "1", "c">>) @@
  ("#cffafe" :> <<"#", "c", "f", "f", "a", "f", "e">>) @@
  ("#d1fae5" :> <<"#", "d", "1", "f", "a", "e", "5">>) @@
  ("#dc2626" :> <<"#", "d", "c", "2", "6", "2", "6">>) @@
  ("#e2e8f0" :> <<"#", "e", "2", "e", "8", "f", "0">>) @@
  ("#ef4444" :> <<"#", "e", "f", "4", "4", "4", "4">>) @@
  ("#f1f5f9" :> <<"#", "f", "1", "f", "5", "f", "9">>) @@
  ("#f4f4f5" :> <<"#", "f", "4", "f", "4", "f", "5">>) @@
  ("#f59e0b" :> <<"#", "f", "5", "9", "e", "0", "b">>) @@
  ("#f8fafc" :> <<"#", "f", "8", "f", "a", "f", "c">>) @@
  ("#fafafa" :> <<"#", "f", "a", "f", "a", "f", "a">>) @@
  ("#fbbf24" :> <<"#", "f", "b", "b", "f", "2", "4">>) @@
  ("#fde68a" :> <<"#", "f", "d", "e", "6", "8", "a">>) @@
  ("#fecaca" :> <<"#", "f", "e", "c", "a", "c", "a">>) @@
  ("#fee2e2" :> <<"#", "f", "e", "e", "2", "e", "2">>) @@
  ("#fef2f2" :> <<"#", "f", "e", "f", "2", "f", "2">>) @@
  ("#fef3c7" :> <<"#", "f", "e", "f", "3", "c", "7">>) @@
  ("#fffbeb" :> <<"#", "f", "f", "f", "b", "e", "b">>)

\* color.replace('#', '').match(/.{2}/g)?.map(hex => parseInt(hex, 16)).join(' ')
\* inside a template literal, where undefined prints as "undefined"
hexToRgbChannels(color) ==
  LET m == matchPairs(replaceHash(chars[color.s]))
  IN IF m = Null THEN "undefined"
     ELSE joinSpace([i \in 1 .. Len(m.elems) |-> numberToString(parseInt16(m.elems[i]))])

\* ------------------------------------------------------------ token trees

colors ==
  Obj(
    ("primary" :> Obj(
      ("50" :> Str("#fafafa")) @@
      ("100" :> Str("#f4f4f5")) @@
      ("400" :> Str("#a1a1aa")) @@
      ("500" :> Str("#71717a")) @@
      ("700" :> Str("#404040")) @@
      ("800" :> Str("#2d2d2d")) @@
      ("950" :> Str("#222222")))) @@
    ("secondary" :> Obj(
      ("50" :> Str("#f8fafc")) @@
      ("100" :> Str("#f1f5f9")) @@
      ("200" :> Str("#e2e8f0")) @@
      ("400" :> Str("#94a3b8")) @@
      ("500" :> Str("#64748b")))) @@
    ("semantic" :> Obj(
      ("success" :> Obj(
        ("100" :> Str("#d1fae5")) @@
        ("200" :> Str("#a7f3d0")) @@
        ("500" :> Str("#10b981")) @@
        ("600" :> Str("#059669")) @@
        ("700" :> Str("#047857")))) @@
      ("error" :> Obj(
        ("50" :> Str("#fef2f2")) @@
        ("100" :> Str("#fee2e2")) @@
        ("200" :> Str("#fecaca")) @@
        ("500" :> Str("#ef4444")) @@
        ("600" :> Str("#dc2626")) @@
        ("700" :> Str("#b91c1c")))) @@
      ("warning" :> Obj(
        ("50" :> Str("#fffbeb")) @@
        ("100" :> Str("#fef3c7")) @@
        ("200" :> Str("#fde68a")) @@
        ("400" :> Str("#fbbf24")) @@
        ("500" :> Str("#f59e0b")))) @@
      ("info" :> Obj(
        ("100" :> Str("#cffafe")) @@
        ("200" :> Str("#a5f3fc")) @@
        ("500" :> Str("#06b6d4")) @@
        ("600" :> Str("#0891b2")))))))

spacing ==
  Obj(
    ("component" :> Obj(
      ("xs" :> Str("0.25rem")) @@
      ("sm" :> Str("0.5rem")) @@
      ("md" :> Str("1rem")) @@
      ("lg" :> Str("1.5rem")) @@
      ("xl" :> Str("2rem")) @@
      ("2xl" :> Str("3rem")))) @@
    ("layout" :> Obj(
      ("xs" :> Str("1rem")) @@
      ("sm" :> Str("2rem")) @@
      ("md" :> Str("3rem")) @@
      ("lg" :> Str("4rem")) @@
      ("xl" :> Str("6rem")) @@
      ("2xl" :> Str("12rem")))) @@
    ("grid" :> Obj(
      ("xs" :> Str("0.25rem")) @@
      ("sm" :> Str("0.5rem")) @@
      ("md" :> Str("1rem")) @@
      ("lg" :> Str("1.5rem")) @@
      ("xl" :> Str("2rem")) @@
      ("2xl" :> Str("3rem")) @@
      ("3xl" :> Str("4rem")) @@
      ("4xl" :> Str("5rem")))) @@
    ("stack" :> Obj(
      ("xs" :> Str("0.5rem")) @@
      ("sm" :> Str("1rem")) @@
      ("md" :> Str("1.5rem")) @@
      ("lg" :> Str("2rem")))) @@
    ("inline" :> Obj(
      ("xs" :> Str("0.5rem")) @@
      ("sm" :> Str("0.75rem")) @@
      ("md" :> Str("1rem")))) @@
    ("container" :> Obj(
      ("mobile" :> Str("1.5rem")) @@
      ("desktop" :> Str("4rem")) @@
      ("responsive" :> Obj(
        ("standard" :> Obj(
          ("base" :> Str("1.5rem")) @@
          ("lg" :> Str("4rem")))) @@
        ("admin" :> Obj(
          ("base" :> Str("1rem")) @@
          ("sm" :> Str("1.5rem")) @@
          ("lg" :> Str("2rem")))) @@
        ("compact" :> Obj(
          ("base" :> Str("1rem")) @@
          ("sm" :> Str("1.5rem")))))))) @@
    ("responsive" :> Obj(
      ("section" :> Obj(
        ("bottom" :> Obj(
          ("base" :> Str("6rem")) @@
          ("sm" :> Str("12rem")))) @@
        ("top" :> Obj(
          ("base" :> Str("3rem")) @@
          ("sm" :> Str("6rem")))))) @@
      ("gap" :> Obj(
        ("adaptive" :> Obj(
          ("base" :> Str("0.5rem")) @@
          ("sm" :> Str("1rem")) @@
          ("lg" :> Str("1.5rem")))) @@
        ("standard" :> Obj(
          ("base" :> Str("1rem")) @@
          ("lg" :> Str("1.5rem")))))))))

shadows ==
  Obj(
    ("elevation" :> Obj(
      ("none" :> Str("none")) @@
      ("xs" :> Str("0 1px 2px 0 rgb(0 0 0 / 0.05)")) @@
      ("sm" :> Str("0 1px 3px 0 rgb(0 0 0 / 0.1), 0 1px 2px 0 rgb(0 0 0 / 0.06)")) @@
      ("md" :> Str("0 4px 6px -1px rgb(0 0 0 / 0.1), 0 2px 4px -1px rgb(0 0 0 / 0.06)")) @@
      ("lg" :> Str("0 10px 15px -3px rgb(0 0 0 / 0.1), 0 4px 6px -2px rgb(0 0 0 / 0.05)")) @@
      ("xl" :> Str("0 20px 25px -5px rgb(0 0 0 / 0.1), 0 10px 10px -5px rgb(0 0 0 / 0.04)")) @@
      ("2xl" :> Str("0 25px 50px -12px rgb(0 0 0 / 0.25)")) @@
      ("custom" :> Str("0px 6px 20px 0px rgba(0, 0, 0, 0.2)")))) @@
    ("colors" :> Obj(
      ("default" :> Str("rgb(0 0 0 / 0.1)")) @@
      ("subtle" :> Str("rgb(0 0 0 / 0.05)")) @@
      ("strong" :> Str("rgb(0 0 0 / 0.25)")) @@
      ("primary" :> Str("rgb(" \o hexToRgbChannels(At(colors, <<"primary", "950">>)) \o " / 0.1)")) @@
      ("secondary" :> Str("rgb(" \o hexToRgbChannels(At(colors, <<"secondary", "500">>)) \o " / 0.1)")) @@
      ("success" :> Str("rgb(" \o hexToRgbChannels(At(colors, <<"semantic", "success", "500">>)) \o " / 0.2)")) @@
      ("error" :> Str("rgb(" \o hexToRgbChannels(At(colors, <<"semantic", "error", "500">>)) \o " / 0.2)")) @@
      ("warning" :> Str("rgb(" \o hexToRgbChannels(At(colors, <<"semantic", "warning", "500">>)) \o " / 0.2)")) @@
      ("info" :> Str("rgb(" \o hexToRgbChannels(At(colors, <<"semantic", "info", "500">>)) \o " / 0.2)")) @@
      ("email" :> Obj(
        ("button" :> Str("rgba(79, 70, 229, 0.3)")) @@
        ("card" :> Str("rgba(0, 0, 0, 0.1)")))))) @@
    ("interactive" :> Obj(
      ("hover" :> Obj(
        ("subtle" :> Str("0 4px 6px -1px rgb(0 0 0 / 0.1), 0 2px 4px -1px rgb(0 0 0 / 0.06)")) @@
        ("moderate" :> Str("0 10px 15px -3px rgb(0 0 0 / 0.1), 0 4px 6px -2px rgb(0 0 0 / 0.05)")) @@
        ("strong" :> Str("0 20px 25px -5px rgb(0 0 0 / 0.1), 0 10px 10px -5px rgb(0 0 0 / 0.04)")))) @@
      ("focus" :> Obj(
        ("default" :> Str("0 0 0 3px rgb(" \o hexToRgbChannels(At(colors, <<"primary", "950">>)) \o " / 0.1)")) @@
        ("error" :> Str("0 0 0 3px rgb(" \o hexToRgbChannels(At(colors, <<"semantic", "error", "500">>)) \o " / 0.1)")) @@
        ("success" :> Str("0 0 0 3px rgb(" \o hexToRgbChannels(At(colors, <<"semantic", "success", "500">>)) \o " / 0.1)")))) @@
      ("active" :> Obj(
        ("pressed" :> Str("0 1px 2px 0 rgb(0 0 0 / 0.05)")) @@
        ("selected" :> Str("0 0 0 2px rgb(0 0 0 / 0.1)")))) @@
      ("disabled" :> Obj(
        ("shadow" :> Str("0 1px 2px 0 rgb(0 0 0 / 0.05)")) @@
        ("opacity" :> Str("0.5")))))) @@
    ("semantic" :> Obj(
      ("success" :> Obj(
        ("subtle" :> Str("0 1px 3px 0 rgb(" \o hexToRgbChannels(At(colors, <<"semantic", "success", "500">>)) \o " / 0.1)")) @@
        ("moderate" :> Str("0 4px 6px -1px rgb(" \o hexToRgbChannels(At(colors, <<"semantic", "success", "500">>)) \o " / 0.1)")) @@
        ("strong" :> Str("0 10px 15px -3px rgb(" \o hexToRgbChannels(At(colors, <<"semantic", "success", "500">>)) \o " / 0.2)")))) @@
      ("error" :> Obj(
        ("subtle" :> Str("0 1px 3px 0 rgb(" \o hexToRgbChannels(At(colors, <<"semantic", "error", "500">>)) \o " / 0.1)")) @@
        ("moderate" :> Str("0 4px 6px -1px rgb(" \o hexToRgbChannels(At(colors, <<"semantic", "error", "500">>)) \o " / 0.1)")) @@
        ("strong" :> Str("0 10px 15px -3px rgb(" \o hexToRgbChannels(At(colors, <<"semantic", "error", "500">>)) \o " / 0.2)")))) @@
      ("warning" :> Obj(
        ("subtle" :> Str("0 1px 3px 0 rgb(" \o hexToRgbChannels(At(colors, <<"semantic", "warning", "500">>)) \o " / 0.1)")) @@
        ("moderate" :> Str("0 4px 6px -1px rgb(" \o hexToRgbChannels(At(colors, <<"semantic", "warning", "500">>)) \o " / 0.1)")) @@
        ("strong" :> Str("0 10px 15px -3px rgb(" \o hexToRgbChannels(At(colors, <<"semantic", "warning", "500">>)) \o " / 0.2)")))) @@
      ("info" :> Obj(
        ("subtle" :> Str("0 1px 3px 0 rgb(" \o hexToRgbChannels(At(colors, <<"semantic", "info", "500">>)) \o " / 0.1)")) @@
        ("moderate" :> Str("0 4px 6px -1px rgb(" \o hexToRgbChannels(At(colors, <<"semantic", "info", "500">>)) \o " / 0.1)")) @@
        ("strong" :> Str("0 10px 15px -3px rgb(" \o hexToRgbChannels(At(colors, <<"semantic", "info", "500">>)) \o " / 0.2)")))))) @@
    ("components" :> Obj(
      ("card" :> Obj(
        ("skeleton" :> Str("0 1px 3px 0 rgb(0 0 0 / 0.1), 0 1px 2px 0 rgb(0 0 0 / 0.06)")) @@
        ("default" :> Str("0px 6px 20px 0px rgba(0, 0, 0, 0.2)")) @@
        ("interactive" :> Obj(
          ("default" :> Str("0px 6px 20px 0px rgba(0, 0, 0, 0.2)")) @@
          ("hover" :> Str("0 10px 15px -3px rgb(0 0 0 / 0.1), 0 4px 6px -2px rgb(0 0 0 / 0.05)")))) @@
        ("elevated" :> Str("0 20px 25px -5px rgb(0 0 0 / 0.1), 0 10px 10px -5px rgb(0 0 0 / 0.04)")))) @@
      ("button" :> Obj(
        ("primary" :> Str("none")) @@
        ("secondary" :> Str("0 1px 3px 0 rgb(0 0 0 / 0.1), 0 1px 2px 0 rgb(0 0 0 / 0.06)")) @@
        ("outline" :> Str("0 1px 3px 0 rgb(0 0 0 / 0.1), 0 1px 2px 0 rgb(0 0 0 / 0.06)")) @@
        ("floating" :> Str("0px 6px 20px 0px rgba(0, 0, 0, 0.2)")) @@
        ("hover" :> Obj(
          ("secondary" :> Str("0 4px 6px -1px rgb(0 0 0 / 0.1), 0 2px 4px -1px rgb(0 0 0 / 0.06)")) @@
          ("outline" :> Str("0 4px 6px -1px rgb(0 0 0 / 0.1), 0 2px 4px -1px rgb(0 0 0 / 0.06)")))))) @@
      ("modal" :> Obj(
        ("default" :> Str("0 20px 25px -5px rgb(0 0 0 / 0.1), 0 10px 10px -5px rgb(0 0 0 / 0.04)")) @@
        ("large" :> Str("0 25px 50px -12px rgb(0 0 0 / 0.25)")) @@
        ("backdrop" :> Str("rgba(0, 0, 0, 0.5)")))) @@
      ("dropdown" :> Obj(
        ("default" :> Str("0px 6px 20px 0px rgba(0, 0, 0, 0.2)")) @@
        ("admin" :> Str("0 10px 15px -3px rgb(0 0 0 / 0.1), 0 4px 6px -2px rgb(0 0 0 / 0.05)")) @@
        ("select" :> Str("0 10px 15px -3px rgb(0 0 0 / 0.1), 0 4px 6px -2px rgb(0 0 0 / 0.05)")))) @@
      ("navigation" :> Obj(
        ("header" :> Str("0 1px 3px 0 rgb(0 0 0 / 0.1), 0 1px 2px 0 rgb(0 0 0 / 0.06)")) @@
        ("mobile" :> Str("0 10px 15px -3px rgb(0 0 0 / 0.1), 0 4px 6px -2px rgb(0 0 0 / 0.05)")) @@
        ("popover" :> Str("0px 6px 20px 0px rgba(0, 0, 0, 0.2)")))) @@
      ("form" :> Obj(
        ("input" :> Str("none")) @@
        ("inputFocus" :> Str("0 0 0 2px rgb(" \o hexToRgbChannels(At(colors, <<"primary", "950">>)) \o " / 0.1)")) @@
        ("inputError" :> Str("0 0 0 2px rgb(" \o hexToRgbChannels(At(colors, <<"semantic", "error", "500">>)) \o " / 0.1)")) @@
        ("container" :> Str("0px 6px 20px 0px rgba(0, 0, 0, 0.2)")))) @@
      ("tooltip" :> Obj(
        ("default" :> Str("0px 6px 20px 0px rgba(0, 0, 0, 0.2)")) @@
        ("subtle" :> Str("0 4px 6px -1px rgb(0 0 0 / 0.1), 0 2px 4px -1px rgb(0 0 0 / 0.06)")))) @@
      ("loading" :> Obj(
        ("skeleton" :> Str("0 1px 3px 0 rgb(0 0 0 / 0.1), 0 1px 2px 0 rgb(0 0 0 / 0.06)")) @@
        ("spinner" :> Str("none")))))) @@
    ("special" :> Obj(
      ("inner" :> Obj(
        ("subtle" :> Str("inset 0 1px 2px 0 rgb(0 0 0 / 0.05)")) @@
        ("moderate" :> Str("inset 0 2px 4px 0 rgb(0 0 0 / 0.1)")) @@
        ("strong" :> Str("inset 0 4px 8px 0 rgb(0 0 0 / 0.15)")))) @@
      ("glow" :> Obj(
        ("primary" :> Str("0 0 20px rgb(" \o hexToRgbChannels(At(colors, <<"primary", "950">>)) \o " / 0.3)")) @@
        ("success" :> Str("0 0 20px rgb(" \o hexToRgbChannels(At(colors, <<"semantic", "success", "500">>)) \o " / 0.3)")) @@
        ("error" :> Str("0 0 20px rgb(" \o hexToRgbChannels(At(colors, <<"semantic", "error", "500">>)) \o " / 0.3)")) @@
        ("warning" :> Str("0 0 20px rgb(" \o hexToRgbChannels(At(colors, <<"semantic", "warning", "500">>)) \o " / 0.3)")) @@
        ("info" :> Str("0 0 20px rgb(" \o hexToRgbChannels(At(colors, <<"semantic", "info", "500">>)) \o " / 0.3)")))) @@
      ("layered" :> Obj(
        ("card" :> Str("0 1px 3px 0 rgb(0 0 0 / 0.1), 0 1px 2px 0 rgb(0 0 0 / 0.06), 0 0 0 1px rgb(0 0 0 / 0.05)")) @@
        ("modal" :> Str("0 20px 25px -5px rgb(0 0 0 / 0.1), 0 10px 10px -5px rgb(0 0 0 / 0.04), 0 0 0 1px rgb(0 0 0 / 0.05)")))) @@
      ("email" :> Obj(
        ("button" :> Str("0 4px 12px rgba(79, 70, 229, 0.3)")) @@
        ("card" :> Str("0 4px 6px -1px rgba(0, 0, 0, 0.1)")) @@
        ("container" :> Str("0 2px 4px rgba(0, 0, 0, 0.1)")))))) @@
    ("utilities" :> Obj(
      ("none" :> Str("none")) @@
      ("subtle" :> Str("0 1px 3px 0 rgb(0 0 0 / 0.1), 0 1px 2px 0 rgb(0 0 0 / 0.06)")) @@
      ("default" :> Str("0 4px 6px -1px rgb(0 0 0 / 0.1), 0 2px 4px -1px rgb(0 0 0 / 0.06)")) @@
      ("moderate" :> Str("0 10px 15px -3px rgb(0 0 0 / 0.1), 0 4px 6px -2px rgb(0 0 0 / 0.05)")) @@
      ("strong" :> Str("0 20px 25px -5px rgb(0 0 0 / 0.1), 0 10px 10px -5px rgb(0 0 0 / 0.04)")) @@
      ("custom" :> Str("0px 6px 20px 0px rgba(0, 0, 0, 0.2)")) @@
      ("transition" :> Str("box-shadow 0.15s ease-in-out")) @@
      ("transitionAll" :> Str("all 0.15s ease-in-out")) @@
      ("ring" :> Str("0 0 0 2px rgb(" \o hexToRgbChannels(At(colors, <<"primary", "950">>)) \o " / 0.1)")) @@
      ("ringError" :> Str("0 0 0 2px rgb(" \o hexToRgbChannels(At(colors, <<"semantic", "error", "500">>)) \o " / 0.1)")) @@
      ("ringSuccess" :> Str("0 0 0 2px rgb(" \o hexToRgbChannels(At(colors, <<"semantic", "success", "500">>)) \o " / 0.1)")))))

borders ==
  Obj(
    ("width" :> Obj(
      ("none" :> Str("0")) @@
      ("thin" :> Str("1px")) @@
      ("medium" :> Str("2px")) @@
      ("thick" :> Str("4px")))) @@
    ("style" :> Obj(
      ("solid" :> Str("solid")) @@
      ("dashed" :> Str("dashed")) @@
      ("dotted" :> Str("dotted")) @@
      ("none" :> Str("none")))) @@
    ("radius" :> Obj(
      ("none" :> Str("0")) @@
      ("sm" :> Str("0.125rem")) @@
      ("md" :> Str("0.375rem")) @@
      ("lg" :> Str("0.5rem")) @@
      ("xl" :> Str("0.75rem")) @@
      ("2xl" :> Str("1rem")) @@
      ("full" :> Str("9999px")))) @@
    ("colors" :> Obj(
      ("default" :> At(colors, <<"secondary", "200">>)) @@
      ("subtle" :> At(colors, <<"secondary", "100">>)) @@
      ("muted" :> At(colors, <<"secondary", "50">>)) @@
      ("focus" :> At(colors, <<"primary", "950">>)) @@
      ("active" :> At(colors, <<"primary", "800">>)) @@
      ("hover" :> At(colors, <<"secondary", "400">>)) @@
      ("success" :> At(colors, <<"semantic", "success", "500">>)) @@
      ("error" :> At(colors, <<"semantic", "error", "500">>)) @@
      ("warning" :> At(colors, <<"semantic", "warning", "400">>)) @@
      ("info" :> At(colors, <<"semantic", "info", "500">>)) @@
      ("divider" :> At(colors, <<"secondary", "100">>)) @@
      ("accent" :> At(colors, <<"primary", "950">>)) @@
      ("transparent" :> Str("transparent")))) @@
    ("rings" :> Obj(
      ("width" :> Obj(
        ("none" :> Str("0")) @@
        ("thin" :> Str("1px")) @@
        ("medium" :> Str("2px")) @@
        ("thick" :> Str("4px")))) @@
      ("colors" :> Obj(
        ("focus" :> At(colors, <<"primary", "950">>)) @@
        ("error" :> At(colors, <<"semantic", "error", "500">>)) @@
        ("success" :> At(colors, <<"semantic", "success", "500">>)) @@
        ("warning" :> At(colors, <<"semantic", "warning", "400">>)) @@
        ("info" :> At(colors, <<"semantic", "info", "500">>)) @@
        ("subtle" :> At(colors, <<"secondary", "100">>)))) @@
      ("offset" :> Obj(
        ("none" :> Str("0")) @@
        ("sm" :> Str("1px")) @@
        ("md" :> Str("2px")) @@
        ("lg" :> Str("4px")))))) @@
    ("directional" :> Obj(
      ("top" :> Obj(
        ("default" :> Str("1px solid " \o At(colors, <<"secondary", "100">>).s)) @@
        ("thick" :> Str("2px solid " \o At(colors, <<"secondary", "100">>).s)) @@
        ("accent" :> Str("1px solid " \o At(colors, <<"primary", "950">>).s)))) @@
      ("bottom" :> Obj(
        ("default" :> Str("1px solid " \o At(colors, <<"secondary", "100">>).s)) @@
        ("thick" :> Str("2px solid " \o At(colors, <<"secondary", "100">>).s)) @@
        ("accent" :> Str("2px solid " \o At(colors, <<"primary", "950">>).s)) @@
        ("divider" :> Str("1px solid " \o At(colors, <<"secondary", "100">>).s)))) @@
      ("left" :> Obj(
        ("default" :> Str("1px solid " \o At(colors, <<"secondary", "200">>).s)) @@
        ("thick" :> Str("4px solid " \o At(colors, <<"semantic", "info", "500">>).s)) @@
        ("accent" :> Str("2px solid " \o At(colors, <<"primary", "950">>).s)) @@
        ("warning" :> Str("4px solid " \o At(colors, <<"semantic", "warning", "400">>).s)) @@
        ("error" :> Str("4px solid " \o At(colors, <<"semantic", "error", "500">>).s)))) @@
      ("right" :> Obj(
        ("default" :> Str("1px solid " \o At(colors, <<"secondary", "200">>).s)) @@
        ("divider" :> Str("1px solid " \o At(colors, <<"secondary", "100">>).s)))))) @@
    ("components" :> Obj(
      ("input" :> Obj(
        ("default" :> Obj(
          ("width" :> Str("2px")) @@
          ("style" :> Str("solid")) @@
          ("color" :> At(colors, <<"secondary", "100">>)) @@
          ("radius" :> Str("0.375rem")) @@
          ("focus" :> Obj(
            ("width" :> Str("2px")) @@
            ("style" :> Str("solid")) @@
            ("color" :> At(colors, <<"primary", "950">>)) @@
            ("outline" :> Str("none")))))) @@
        ("error" :> Obj(
          ("width" :> Str("2px")) @@
          ("style" :> Str("solid")) @@
          ("color" :> At(colors, <<"semantic", "error", "500">>)) @@
          ("radius" :> Str("0.375rem")) @@
          ("background" :> At(colors, <<"semantic", "error", "100">>)))) @@
        ("success" :> Obj(
          ("width" :> Str("2px")) @@
          ("style" :> Str("solid")) @@
          ("color" :> At(colors, <<"semantic", "success", "200">>)) @@
          ("radius" :> Str("0.375rem")) @@
          ("background" :> At(colors, <<"semantic", "success", "100">>)))))) @@
      ("card" :> Obj(
        ("default" :> Obj(
          ("width" :> Str("1px")) @@
          ("style" :> Str("solid")) @@
          ("color" :> At(colors, <<"secondary", "100">>)) @@
          ("radius" :> Str("0.375rem")))) @@
        ("elevated" :> Obj(
          ("width" :> Str("0")) @@
          ("style" :> Str("none")) @@
          ("color" :> Str("transparent")) @@
          ("radius" :> Str("0.375rem")) @@
          ("shadow" :> Str("0px 6px 20px 0px rgba(0,0,0,0.2)")))) @@
        ("interactive" :> Obj(
          ("width" :> Str("2px")) @@
          ("style" :> Str("solid")) @@
          ("color" :> At(colors, <<"secondary", "100">>)) @@
          ("radius" :> Str("0.375rem")) @@
          ("hover" :> Obj(
            ("color" :> At(colors, <<"primary", "950">>)))))))) @@
      ("button" :> Obj(
        ("primary" :> Obj(
          ("width" :> Str("0")) @@
          ("style" :> Str("none")) @@
          ("color" :> Str("transparent")) @@
          ("radius" :> Str("0.375rem")))) @@
        ("secondary" :> Obj(
          ("width" :> Str("1px")) @@
          ("style" :> Str("solid")) @@
          ("color" :> At(colors, <<"secondary", "200">>)) @@
          ("radius" :> Str("0.375rem")))) @@
        ("outline" :> Obj(
          ("width" :> Str("1px")) @@
          ("style" :> Str("solid")) @@
          ("color" :> At(colors, <<"primary", "950">>)) @@
          ("radius" :> Str("0.375rem")))) @@
        ("ghost" :> Obj(
          ("width" :> Str("0")) @@
          ("style" :> Str("none")) @@
          ("color" :> Str("transparent")) @@
          ("radius" :> Str("0.375rem")))))) @@
      ("modal" :> Obj(
        ("default" :> Obj(
          ("width" :> Str("0")) @@
          ("style" :> Str("none")) @@
          ("color" :> Str("transparent")) @@
          ("radius" :> Str("0.5rem")) @@
          ("shadow" :> Str("0px 6px 20px 0px rgba(0,0,0,0.2)")))) @@
        ("content" :> Obj(
          ("width" :> Str("1px")) @@
          ("style" :> Str("solid")) @@
          ("color" :> At(colors, <<"secondary", "100">>)) @@
          ("radius" :> Str("0.375rem")))))) @@
      ("table" :> Obj(
        ("header" :> Obj(
          ("width" :> Str("2px")) @@
          ("style" :> Str("solid")) @@
          ("color" :> At(colors, <<"secondary", "100">>)) @@
          ("direction" :> Str("bottom")))) @@
        ("row" :> Obj(
          ("width" :> Str("1px")) @@
          ("style" :> Str("solid")) @@
          ("color" :> At(colors, <<"secondary", "100">>)) @@
          ("direction" :> Str("bottom")))) @@
        ("cell" :> Obj(
          ("width" :> Str("1px")) @@
          ("style" :> Str("solid")) @@
          ("color" :> At(colors, <<"secondary", "200">>)))))) @@
      ("spinner" :> Obj(
        ("default" :> Obj(
          ("width" :> Str("2px")) @@
          ("style" :> Str("solid")) @@
          ("color" :> At(colors, <<"primary", "950">>)) @@
          ("transparent" :> Str("transparent")) @@
          ("radius" :> Str("9999px")))) @@
        ("light" :> Obj(
          ("width" :> Str("2px")) @@
          ("style" :> Str("solid")) @@
          ("color" :> At(colors, <<"primary", "50">>)) @@
          ("transparent" :> Str("transparent")) @@
          ("radius" :> Str("9999px")))))))) @@
    ("states" :> Obj(
      ("focus" :> Obj(
        ("ring" :> Str("2px solid " \o At(colors, <<"primary", "950">>).s)) @@
        ("outline" :> Str("none")) @@
        ("background" :> At(colors, <<"primary", "50">>)))) @@
      ("hover" :> Obj(
        ("border" :> Str("1px solid " \o At(colors, <<"secondary", "400">>).s)) @@
        ("ring" :> Str("2px solid " \o At(colors, <<"secondary", "200">>).s)))) @@
      ("active" :> Obj(
        ("border" :> Str("2px solid " \o At(colors, <<"primary", "950">>).s)) @@
        ("ring" :> Str("2px solid " \o At(colors, <<"primary", "950">>).s)))) @@
      ("disabled" :> Obj(
        ("border" :> Str("1px solid " \o At(colors, <<"secondary", "200">>).s)) @@
        ("opacity" :> Str("0.5")))) @@
      ("error" :> Obj(
        ("border" :> Str("2px solid " \o At(colors, <<"semantic", "error", "500">>).s)) @@
        ("ring" :> Str("2px solid " \o At(colors, <<"semantic", "error", "500">>).s)) @@
        ("background" :> At(colors, <<"semantic", "error", "100">>)))) @@
      ("success" :> Obj(
        ("border" :> Str("2px solid " \o At(colors, <<"semantic", "success", "500">>).s)) @@
        ("ring" :> Str("2px solid " \o At(colors, <<"semantic", "success", "200">>).s)) @@
        ("background" :> At(colors, <<"semantic", "success", "100">>)))))) @@
    ("utilities" :> Obj(
      ("none" :> Str("none")) @@
      ("default" :> Str("1px solid " \o At(colors, <<"secondary", "200">>).s)) @@
      ("subtle" :> Str("1px solid " \o At(colors, <<"secondary", "100">>).s)) @@
      ("thick" :> Str("2px solid " \o At(colors, <<"secondary", "200">>).s)) @@
      ("accent" :> Str("2px solid " \o At(colors, <<"primary", "950">>).s)) @@
      ("focusRing" :> Str("0 0 0 2px " \o At(colors, <<"primary", "950">>).s)) @@
      ("dividerHorizontal" :> Str("1px solid " \o At(colors, <<"secondary", "100">>).s)) @@
      ("dividerVertical" :> Str("1px solid " \o At(colors, <<"secondary", "200">>).s)) @@
      ("calloutInfo" :> Str("4px solid " \o At(colors, <<"semantic", "info", "500">>).s)) @@
      ("calloutWarning" :> Str("4px solid " \o At(colors, <<"semantic", "warning", "400">>).s)) @@
      ("calloutError" :> Str("4px solid " \o At(colors, <<"semantic", "error", "500">>).s)) @@
      ("calloutSuccess" :> Str("4px solid " \o At(colors, <<"semantic", "success", "500">>).s)))))

zIndex ==
  Obj(
    ("base" :> Obj(
      ("behind" :> Num(-1)) @@
      ("default" :> Num(0)) @@
      ("above" :> Num(1)))) @@
    ("content" :> Obj(
      ("background" :> Num(0)) @@
      ("content" :> Num(10)) @@
      ("foreground" :> Num(20)))) @@
    ("navigation" :> Obj(
      ("popover" :> Num(10)) @@
      ("dropdown" :> Num(10)) @@
      ("mobileMenu" :> Num(20)) @@
      ("header" :> Num(30)) @@
      ("adminHeader" :> Num(40)))) @@
    ("overlay" :> Obj(
      ("backdrop" :> Num(40)) @@
      ("drawer" :> Num(50)) @@
      ("modal" :> Num(50)) @@
      ("loading" :> Num(50)))) @@
    ("popup" :> Obj(
      ("dropdown" :> Num(10)) @@
      ("tooltip" :> Num(30)) @@
      ("popover" :> Num(40)) @@
      ("notification" :> Num(50)) @@
      ("contextMenu" :> Num(50)))) @@
    ("sticky" :> Obj(
      ("content" :> Num(30)) @@
      ("header" :> Num(40)) @@
      ("fab" :> Num(50)) @@
      ("navigation" :> Num(50)))) @@
    ("maximum" :> Obj(
      ("loading" :> Num(9999)) @@
      ("emergency" :> Num(10000)))) @@
    ("components" :> Obj(
      ("card" :> Obj(
        ("default" :> Num(0)) @@
        ("hover" :> Num(1)) @@
        ("selected" :> Num(2)))) @@
      ("form" :> Obj(
        ("dropdown" :> Num(10)) @@
        ("autocomplete" :> Num(10)) @@
        ("validation" :> Num(20)) @@
        ("overlay" :> Num(50)))) @@
      ("navigation" :> Obj(
        ("popover" :> Num(10)) @@
        ("dropdown" :> Num(10)) @@
        ("mobile" :> Num(20)) @@
        ("header" :> Num(40)))) @@
      ("modal" :> Obj(
        ("backdrop" :> Num(40)) @@
        ("dialog" :> Num(50)) @@
        ("loading" :> Num(50)))) @@
      ("admin" :> Obj(
        ("sidebar" :> Num(50)) @@
        ("header" :> Num(40)) @@
        ("dropdown" :> Num(10)) @@
        ("modal" :> Num(50)))) @@
      ("notification" :> Obj(
        ("toast" :> Num(50)) @@
        ("banner" :> Num(30)) @@
        ("badge" :> Num(20)))))) @@
    ("states" :> Obj(
      ("hover" :> Obj(
        ("card" :> Num(1)) @@
        ("button" :> Num(1)) @@
        ("interactive" :> Num(2)))) @@
      ("focus" :> Obj(
        ("element" :> Num(10)) @@
        ("modal" :> Num(50)))) @@
      ("active" :> Obj(
        ("element" :> Num(2)) @@
        ("selected" :> Num(5)))) @@
      ("disabled" :> Obj(
        ("element" :> Num(0)))))) @@
    ("utilities" :> Obj(
      ("hide" :> Num(-1)) @@
      ("default" :> Num(0)) @@
      ("raise" :> Num(1)) @@
      ("above" :> Num(10)) @@
      ("nav" :> Num(20)) @@
      ("header" :> Num(40)) @@
      ("overlay" :> Num(50)) @@
      ("max" :> Num(9999)))))

typography ==
  Obj(
    ("fontFamily" :> Obj(
      ("sans" :> Arr(<<Str("var(--font-inter)"), Str("Inter"), Str("system-ui"), Str("-apple-system"), Str("BlinkMacSystemFont"), Str("Segoe UI"), Str("Roboto"), Str("Helvetica Neue"), Str("Arial"), Str("sans-serif")>>)) @@
      ("display" :> Arr(<<Str("var(--font-poppins)"), Str("Poppins"), Str("system-ui"), Str("-apple-system"), Str("BlinkMacSystemFont"), Str("Segoe UI"), Str("sans-serif")>>)) @@
      ("mono" :> Arr(<<Str("ui-monospace"), Str("SFMono-Regular"), Str("Menlo"), Str("Monaco"), Str("Consolas"), Str("Liberation Mono"), Str("Courier New"), Str("monospace")>>)))) @@
    ("fontSize" :> Obj(
      ("xs" :> Arr(<<Str("0.75rem"), Obj(
          ("lineHeight" :> Str("1rem")))>>)) @@
      ("sm" :> Arr(<<Str("0.875rem"), Obj(
          ("lineHeight" :> Str("1.25rem")))>>)) @@
      ("base" :> Arr(<<Str("1rem"), Obj(
          ("lineHeight" :> Str("1.5rem")))>>)) @@
      ("lg" :> Arr(<<Str("1.125rem"), Obj(
          ("lineHeight" :> Str("1.75rem")))>>)) @@
      ("xl" :> Arr(<<Str("1.25rem"), Obj(
          ("lineHeight" :> Str("1.75rem")))>>)) @@
      ("2xl" :> Arr(<<Str("1.5rem"), Obj(
          ("lineHeight" :> Str("2rem")))>>)) @@
      ("3xl" :> Arr(<<Str("1.875rem"), Obj(
          ("lineHeight" :> Str("2.25rem")))>>)) @@
      ("4xl" :> Arr(<<Str("2.25rem"), Obj(
          ("lineHeight" :> Str("2.5rem")))>>)) @@
      ("5xl" :> Arr(<<Str("3rem"), Obj(
          ("lineHeight" :> Str("1")))>>)) @@
      ("6xl" :> Arr(<<Str("3.75rem"), Obj(
          ("lineHeight" :> Str("1")))>>)))) @@
    ("fontWeight" :> Obj(
      ("normal" :> Str("400")) @@
      ("medium" :> Str("500")) @@
      ("semibold" :> Str("600")) @@
      ("bold" :> Str("700")))) @@
    ("lineHeight" :> Obj(
      ("none" :> Str("1")) @@
      ("tight" :> Str("1.25")) @@
      ("snug" :> Str("1.375")) @@
      ("normal" :> Str("1.5")) @@
      ("relaxed" :> Str("1.625")) @@
      ("loose" :> Str("2")) @@
      ("5" :> Str("1.25rem")))) @@
    ("letterSpacing" :> Obj(
      ("tighter" :> Str("-0.05em")) @@
      ("tight" :> Str("-0.025em")) @@
      ("normal" :> Str("0")) @@
      ("wide" :> Str("0.025em")) @@
      ("wider" :> Str("0.05em")) @@
      ("widest" :> Str("0.1em")))) @@
    ("colors" :> Obj(
      ("primary" :> At(colors, <<"primary", "950">>)) @@
      ("secondary" :> At(colors, <<"primary", "500">>)) @@
      ("muted" :> At(colors, <<"primary", "400">>)) @@
      ("inverse" :> At(colors, <<"primary", "50">>)) @@
      ("success" :> At(colors, <<"semantic", "success", "600">>)) @@
      ("error" :> At(colors, <<"semantic", "error", "500">>)) @@
      ("warning" :> At(colors, <<"semantic", "warning", "500">>)) @@
      ("info" :> At(colors, <<"semantic", "info", "600">>)) @@
      ("link" :> At(colors, <<"semantic", "info", "600">>)) @@
      ("disabled" :> At(colors, <<"primary", "400">>)))) @@
    ("headings" :> Obj(
      ("h1" :> Obj(
        ("fontSize" :> Str("3.5rem")) @@
        ("lineHeight" :> Str("1")) @@
        ("fontWeight" :> Str("600")) @@
        ("color" :> At(colors, <<"primary", "950">>)) @@
        ("responsive" :> Obj(
          ("mobile" :> Str("3rem")) @@
          ("desktop" :> Str("3.5rem")))))) @@
      ("h2" :> Obj(
        ("fontSize" :> Str("1.5rem")) @@
        ("lineHeight" :> Str("2rem")) @@
        ("fontWeight" :> Str("400")) @@
        ("color" :> At(colors, <<"primary", "950">>)) @@
        ("variants" :> Obj(
          ("large" :> Obj(
            ("fontSize" :> Str("2.25rem")) @@
            ("fontWeight" :> Str("600")))))))) @@
      ("h3" :> Obj(
        ("fontSize" :> Str("1.25rem")) @@
        ("lineHeight" :> Str("1.75rem")) @@
        ("fontWeight" :> Str("600")) @@
        ("color" :> At(colors, <<"primary", "950">>)))) @@
      ("h4" :> Obj(
        ("fontSize" :> Str("1.125rem")) @@
        ("lineHeight" :> Str("1.75rem")) @@
        ("fontWeight" :> Str("600")) @@
        ("color" :> At(colors, <<"primary", "950">>)))) @@
      ("h5" :> Obj(
        ("fontSize" :> Str("1rem")) @@
        ("lineHeight" :> Str("1.5rem")) @@
        ("fontWeight" :> Str("600")) @@
        ("color" :> At(colors, <<"primary", "950">>)))) @@
      ("h6" :> Obj(
        ("fontSize" :> Str("0.875rem")) @@
        ("lineHeight" :> Str("1.25rem")) @@
        ("fontWeight" :> Str("600")) @@
        ("color" :> At(colors, <<"primary", "950">>)))))) @@
    ("body" :> Obj(
      ("default" :> Obj(
        ("fontSize" :> Str("1rem")) @@
        ("lineHeight" :> Str("1.5rem")) @@
        ("fontWeight" :> Str("400")) @@
        ("color" :> At(colors, <<"primary", "950">>)))) @@
      ("large" :> Obj(
        ("fontSize" :> Str("1.125rem")) @@
        ("lineHeight" :> Str("1.75rem")) @@
        ("fontWeight" :> Str("400")) @@
        ("color" :> At(colors, <<"primary", "950">>)))) @@
      ("small" :> Obj(
        ("fontSize" :> Str("0.875rem")) @@
        ("lineHeight" :> Str("1.25rem")) @@
        ("fontWeight" :> Str("400")) @@
        ("color" :> At(colors, <<"primary", "950">>)))) @@
      ("caption" :> Obj(
        ("fontSize" :> Str("0.75rem")) @@
        ("lineHeight" :> Str("1rem")) @@
        ("fontWeight" :> Str("400")) @@
        ("color" :> At(colors, <<"primary", "500">>)))))) @@
    ("utilities" :> Obj(
      ("emphasis" :> Obj(
        ("fontWeight" :> Str("600")) @@
        ("color" :> At(colors, <<"primary", "950">>)))) @@
      ("strong" :> Obj(
        ("fontWeight" :> Str("700")) @@
        ("color" :> At(colors, <<"primary", "950">>)))) @@
      ("subtle" :> Obj(
        ("color" :> At(colors, <<"primary", "500">>)))) @@
      ("muted" :> Obj(
        ("color" :> At(colors, <<"primary", "400">>)))) @@
      ("underline" :> Obj(
        ("textDecoration" :> Str("underline")) @@
        ("textUnderlineOffset" :> Str("2px")))) @@
      ("truncate" :> Obj(
        ("overflow" :> Str("hidden")) @@
        ("textOverflow" :> Str("ellipsis")) @@
        ("whiteSpace" :> Str("nowrap")))) @@
      ("balance" :> Obj(
        ("textWrap" :> Str("balance")))))) @@
    ("responsive" :> Obj(
      ("hero" :> Obj(
        ("base" :> Obj(
          ("fontSize" :> Str("3rem")) @@
          ("lineHeight" :> Str("1")) @@
          ("fontWeight" :> Str("600")))) @@
        ("sm" :> Obj(
          ("fontSize" :> Str("3.5rem")) @@
          ("lineHeight" :> Str("1")))))) @@
      ("section" :> Obj(
        ("base" :> Obj(
          ("fontSize" :> Str("1.5rem")) @@
          ("lineHeight" :> Str("2rem")))) @@
        ("sm" :> Obj(
          ("fontSize" :> Str("2.25rem")) @@
          ("lineHeight" :> Str("2.5rem")))))) @@
      ("body" :> Obj(
        ("base" :> Obj(
          ("fontSize" :> Str("0.875rem")) @@
          ("lineHeight" :> Str("1.25rem")))) @@
        ("sm" :> Obj(
          ("fontSize" :> Str("1rem")) @@
          ("lineHeight" :> Str("1.5rem")))))) @@
      ("caption" :> Obj(
        ("base" :> Obj(
          ("fontSize" :> Str("0.75rem")) @@
          ("lineHeight" :> Str("1rem")))) @@
        ("md" :> Obj(
          ("fontSize" :> Str("0.875rem")) @@
          ("lineHeight" :> Str("1.25rem")))))))))

breakpoints ==
  Obj(
    ("screens" :> Obj(
      ("sm" :> Str("640px")) @@
      ("md" :> Str("768px")) @@
      ("lg" :> Str("1024px")) @@
      ("xl" :> Str("1280px")) @@
      ("2xl" :> Str("1536px")))) @@
    ("containers" :> Obj(
      ("sm" :> Str("640px")) @@
      ("md" :> Str("768px")) @@
      ("lg" :> Str("1024px")) @@
      ("xl" :> Str("1280px")) @@
      ("2xl" :> Str("1536px")) @@
      ("content" :> Obj(
        ("xs" :> Str("320px")) @@
        ("sm" :> Str("384px")) @@
        ("md" :> Str("448px")) @@
        ("lg" :> Str("512px")) @@
        ("xl" :> Str("576px")) @@
        ("2xl" :> Str("672px")) @@
        ("3xl" :> Str("768px")) @@
        ("4xl" :> Str("896px")) @@
        ("5xl" :> Str("1024px")))))) @@
    ("grid" :> Obj(
      ("columns" :> Obj(
        ("mobile" :> Num(1)) @@
        ("tablet" :> Num(2)) @@
        ("desktop" :> Num(3)) @@
        ("wide" :> Num(4)))) @@
      ("patterns" :> Obj(
        ("standard" :> Obj(
          ("base" :> Num(1)) @@
          ("lg" :> Num(2)) @@
          ("2xl" :> Num(3)))) @@
        ("admin" :> Obj(
          ("base" :> Num(2)) @@
          ("md" :> Num(4)))) @@
        ("features" :> Obj(
          ("base" :> Num(1)) @@
          ("sm" :> Num(2)))) @@
        ("coverage" :> Obj(
          ("base" :> Num(2)) @@
          ("sm" :> Num(3)) @@
          ("lg" :> Num(4)))))))) @@
    ("typography" :> Obj(
      ("headings" :> Obj(
        ("hero" :> Obj(
          ("base" :> Str("3rem")) @@
          ("sm" :> Str("3.75rem")))) @@
        ("section" :> Obj(
          ("base" :> Str("1.5rem")) @@
          ("sm" :> Str("2.25rem")))) @@
        ("subsection" :> Obj(
          ("base" :> Str("1.25rem")) @@
          ("sm" :> Str("1.5rem")))))) @@
      ("body" :> Obj(
        ("default" :> Obj(
          ("base" :> Str("0.875rem")) @@
          ("sm" :> Str("1rem")))) @@
        ("large" :> Obj(
          ("base" :> Str("1rem")) @@
          ("sm" :> Str("1.125rem")))))))) @@
    ("spacing" :> Obj(
      ("container" :> Obj(
        ("standard" :> Obj(
          ("base" :> Str("1.5rem")) @@
          ("lg" :> Str("4rem")))) @@
        ("admin" :> Obj(
          ("base" :> Str("1rem")) @@
          ("sm" :> Str("1.5rem")) @@
          ("lg" :> Str("2rem")))) @@
        ("compact" :> Obj(
          ("base" :> Str("1rem")) @@
          ("sm" :> Str("1.5rem")))))) @@
      ("section" :> Obj(
        ("bottom" :> Obj(
          ("base" :> Str("6rem")) @@
          ("sm" :> Str("12rem")))) @@
        ("top" :> Obj(
          ("base" :> Str("3rem")) @@
          ("sm" :> Str("6rem")))) @@
        ("combined" :> Obj(
          ("base" :> Str("3rem")) @@
          ("sm" :> Str("6rem")))))) @@
      ("gap" :> Obj(
        ("standard" :> Obj(
          ("base" :> Str("1rem")) @@
          ("lg" :> Str("1.5rem")))) @@
        ("small" :> Obj(
          ("base" :> Str("0.5rem")) @@
          ("sm" :> Str("1rem")))) @@
        ("large" :> Obj(
          ("base" :> Str("1.5rem")) @@
          ("lg" :> Str("2rem")))))))) @@
    ("layout" :> Obj(
      ("direction" :> Obj(
        ("standard" :> Obj(
          ("base" :> Str("column")) @@
          ("sm" :> Str("row")))) @@
        ("reverse" :> Obj(
          ("base" :> Str("row")) @@
          ("sm" :> Str("column")))))) @@
      ("visibility" :> Obj(
        ("desktop" :> Obj(
          ("base" :> Str("hidden")) @@
          ("sm" :> Str("flex")))) @@
        ("mobile" :> Obj(
          ("base" :> Str("block")) @@
          ("sm" :> Str("hidden")))) @@
        ("responsive" :> Obj(
          ("base" :> Str("hidden")) @@
          ("md" :> Str("block")))))) @@
      ("basis" :> Obj(
        ("half" :> Obj(
          ("base" :> Str("100%")) @@
          ("md" :> Str("50%")))) @@
        ("third" :> Obj(
          ("base" :> Str("100%")) @@
          ("lg" :> Str("33.333333%")))) @@
        ("quarter" :> Obj(
          ("base" :> Str("100%")) @@
          ("xl" :> Str("25%")))))))) @@
    ("navigation" :> Obj(
      ("mobile" :> Obj(
        ("hamburger" :> Obj(
          ("show" :> Str("0px")) @@
          ("hide" :> Str("768px")))) @@
        ("overlay" :> Obj(
          ("show" :> Str("0px")) @@
          ("hide" :> Str("1024px")))))) @@
      ("desktop" :> Obj(
        ("main" :> Obj(
          ("show" :> Str("768px")) @@
          ("hide" :> Str("0px")))) @@
        ("secondary" :> Obj(
          ("show" :> Str("1024px")) @@
          ("hide" :> Str("0px")))))) @@
      ("container" :> Obj(
        ("header" :> Obj(
          ("base" :> Str("1.5rem")) @@
          ("lg" :> Str("4rem")))) @@
        ("height" :> Obj(
          ("mobile" :> Str("4rem")) @@
          ("desktop" :> Str("5rem")))))))) @@
    ("components" :> Obj(
      ("button" :> Obj(
        ("padding" :> Obj(
          ("base" :> Obj(
            ("y" :> Str("0.625rem")) @@
            ("x" :> Str("1.5rem")))) @@
          ("sm" :> Obj(
            ("y" :> Str("0.75rem")) @@
            ("x" :> Str("2rem")))))) @@
        ("text" :> Obj(
          ("base" :> Str("0.875rem")) @@
          ("sm" :> Str("1rem")))))) @@
      ("card" :> Obj(
        ("padding" :> Obj(
          ("base" :> Str("1rem")) @@
          ("sm" :> Str("1.5rem")) @@
          ("lg" :> Str("2rem")))) @@
        ("gap" :> Obj(
          ("base" :> Str("1rem")) @@
          ("sm" :> Str("1.5rem")))))) @@
      ("form" :> Obj(
        ("container" :> Obj(
          ("base" :> Str("32rem")) @@
          ("sm" :> Str("42rem")))) @@
        ("padding" :> Obj(
          ("base" :> Str("1.5rem")) @@
          ("sm" :> Str("2.5rem")))))) @@
      ("modal" :> Obj(
        ("width" :> Obj(
          ("base" :> Str("100%")) @@
          ("sm" :> Str("28rem")) @@
          ("lg" :> Str("32rem")))) @@
        ("padding" :> Obj(
          ("base" :> Str("1rem")) @@
          ("sm" :> Str("1.5rem")))))))) @@
    ("utilities" :> Obj(
      ("show" :> Obj(
        ("mobile" :> Obj(
          ("base" :> Str("block")) @@
          ("sm" :> Str("hidden")))) @@
        ("tablet" :> Obj(
          ("base" :> Str("hidden")) @@
          ("sm" :> Str("block")) @@
          ("lg" :> Str("hidden")))) @@
        ("desktop" :> Obj(
          ("base" :> Str("hidden")) @@
          ("lg" :> Str("block")))))) @@
      ("textAlign" :> Obj(
        ("center" :> Obj(
          ("base" :> Str("center")) @@
          ("sm" :> Str("left")))) @@
        ("responsive" :> Obj(
          ("base" :> Str("left")) @@
          ("sm" :> Str("center")) @@
          ("lg" :> Str("left")))))) @@
      ("margin" :> Obj(
        ("section" :> Obj(
          ("base" :> Str("3rem")) @@
          ("sm" :> Str("6rem")))) @@
        ("component" :> Obj(
          ("base" :> Str("1rem")) @@
          ("sm" :> Str("2rem")))))) @@
      ("padding" :> Obj(
        ("container" :> Obj(
          ("base" :> Str("1.5rem")) @@
          ("lg" :> Str("4rem")))) @@
        ("section" :> Obj(
          ("base" :> Str("2rem")) @@
          ("sm" :> Str("3rem")))))))))

\* ------------------------------------------------------- outcomes of a call

Return(value) == [kind |-> "return", value |-> value]

\* throw new Error(message)
Throw(message) == [kind |-> "throw", name |-> "Error", message |-> message]

\* a TypeError raised by the runtime
ThrowTypeError == [kind |-> "throw", name |-> "TypeError", message |-> <<>>]

\* ---------------------------------------------------------- path lookup

\* path.split('.'): the segments between the dots; an empty path has the one
\* segment "", and a leading, trailing or doubled dot gives an empty segment
RECURSIVE splitFrom(_, _, _, _)
splitFrom(path, i, cur, acc) ==
  IF i > Len(path) THEN Append(acc, cur)
  ELSE IF path[i] = "." THEN splitFrom(path, i + 1, "", Append(acc, cur))
  ELSE splitFrom(path, i + 1, cur \o path[i], acc)

\* path.split('/'): a dotted path stays one segment, dots and all
split_onSlash(path) ==
  LET RECURSIVE whole(_)
      whole(atoms) == IF atoms = <<>> THEN "" ELSE Head(atoms) \o whole(Tail(atoms))
  IN <<whole(path)>>

split(path) == splitFrom(path, 1, "", <<>>)

\* the for loop of the lookup helpers: [found |-> TRUE, value |-> v] when every
\* key passed the test `value && typeof value === 'object' && key in value`
RECURSIVE walk(_, _)
walk(value, keys) ==
  IF keys = <<>> THEN [found |-> TRUE, value |-> value]
  ELSE IF Truthy(value) /\ TypeOf(value) = "object" /\ HasProperty(value, Head(keys))
       THEN walk(Get(value, Head(keys)), Tail(keys))
       ELSE [found |-> FALSE]

\* `${label} path "${path}" not found`
notFoundMessage(label, path) == <<label \o " path \"">> \o path \o <<"\" not found">>

\* `${label} path "${path}" does not resolve to a ${type} value`
wrongTypeMessage(label, path, type) ==
  <<label \o " path \"">> \o path \o <<"\" does not resolve to a " \o type \o " value">>

\* getColor answering from the outcome of the getColor call before it
getColor_cached(path) ==
  IF last.op = "getColor" THEN last.out
  ELSE LET w == walk(store.colors, split(path))
       IN IF ~w.found THEN Throw(notFoundMessage("Color", path))
          ELSE IF TypeOf(w.value) /= "string"
               THEN Throw(wrongTypeMessage("Color", path, "string"))
               ELSE Return(w.value)

getColor(path) ==
  LET w == walk(store.colors, split(path))
  IN IF ~w.found THEN Throw(notFoundMessage("Color", path))
     ELSE IF TypeOf(w.value) /= "string" THEN Throw(wrongTypeMessage("Color", path, "string"))
     ELSE Return(w.value)

getSpacing(path) ==
  LET w == walk(store.spacing, split(path))
  IN IF ~w.found THEN Throw(notFoundMessage("Spacing", path))
     ELSE IF TypeOf(w.value) /= "string" THEN Throw(wrongTypeMessage("Spacing", path, "string"))
     ELSE Return(w.value)

getZIndex(path) ==
  LET w == walk(store.zIndex, split(path))
  IN IF ~w.found THEN Throw(notFoundMessage("Z-index", path))
     ELSE IF TypeOf(w.value) /= "number" THEN Throw(wrongTypeMessage("Z-index", path, "number"))
     ELSE Return(w.value)

getShadow(path) ==
  LET w == walk(store.shadows, split(path))
  IN IF ~w.found THEN Throw(notFoundMessage("Shadow", path)) ELSE Return(w.value)

getBorder(path) ==
  LET w == walk(store.borders, split(path))
  IN IF ~w.found THEN Throw(notFoundMessage("Border", path)) ELSE Return(w.value)

getBreakpoint(path) ==
  LET w == walk(store.breakpoints, split(path))
  IN IF ~w.found THEN Throw(notFoundMessage("Breakpoint", path)) ELSE Return(w.value)

getTypography(path) ==
  LET w == walk(store.typography, split(path))
  IN IF ~w.found THEN Throw(notFoundMessage("Typography", path)) ELSE Return(w.value)

\* ------------------------------------------------------ variant resolver

\* a class list written in the source as one string literal: its class tokens
\* separated by single spaces
RECURSIVE spaced(_)
spaced(tokens) ==
  IF Len(tokens) <= 1 THEN tokens
  ELSE <<tokens[1], " ">> \o spaced(Tail(tokens))

baseClasses ==
  Text(spaced(<<"inline-flex", "items-center", "justify-center", "rounded-md", "font-medium",
                "transition-colors", "focus:outline-none", "focus:ring-2",
                "focus:ring-offset-2", "disabled:opacity-50", "disabled:cursor-not-allowed">>))

variantClasses ==
  Obj(
    ("primary" :> Text(spaced(<<"bg-blue-600", "text-white", "hover:bg-blue-700", "focus:ring-blue-500">>))) @@
    ("secondary" :> Text(spaced(<<"bg-gray-200", "text-gray-900", "hover:bg-gray-300", "focus:ring-gray-500">>))) @@
    ("outline" :> Text(spaced(<<"border", "border-gray-300", "bg-transparent", "hover:bg-gray-50", "focus:ring-gray-500">>))) @@
    ("ghost" :> Text(spaced(<<"bg-transparent", "hover:bg-gray-100", "focus:ring-gray-500">>))))

sizeClasses ==
  Obj(
    ("sm" :> Text(spaced(<<"h-8", "px-3", "text-sm">>))) @@
    ("md" :> Text(spaced(<<"h-10", "px-4", "text-base">>))) @@
    ("lg" :> Text(spaced(<<"h-12", "px-6", "text-lg">>))))

\* the parameter default of a destructured property: it applies when the
\* property is absent or undefined
withDefault(selection, axis, default) ==
  IF axis \in DOMAIN selection /\ selection[axis] /= Undefined
  THEN selection[axis] ELSE default

\* ToPropertyKey(value) of table[value]
toPropertyKey(value) ==
  CASE value.t = "string" -> value.s
    [] value.t = "null" -> "null"
    [] value.t = "undefined" -> "undefined"

\* a || b
or(a, b) == IF Truthy(a) THEN a ELSE b

\* String(value) as a template literal substitution applies it, as a Text
toText(value) ==
  CASE value.t = "string" -> IF "atoms" \in DOMAIN value THEN value.atoms ELSE <<value.s>>
    [] value.t = "function" ->
         spaced(<<"function", value.name \o "()", "{", "[native", "code]", "}">>)
    [] value.t \in {"object", "Object.prototype"} -> spaced(<<"[object", "Object]">>)
    [] value.t = "null" -> <<"null">>
    [] value.t = "undefined" -> <<"undefined">>

\* variantsTemplate with the size part ahead of the variant part
variantsTemplate_sizeFirst(base, variantPart, sizePart) ==
  Text(toText(base) \o <<" ">> \o toText(sizePart) \o <<" ">> \o toText(variantPart))

\* `${baseClasses} ${variantClasses[variant] || variantClasses.primary} ${sizeClasses[size] || sizeClasses.md}`
variantsTemplate(base, variantPart, sizePart) ==
  Text(toText(base) \o <<" ">> \o toText(variantPart) \o <<" ">> \o toText(sizePart))

\* variants without the `|| default` fallbacks, trimming the fragment it
\* finds: a TypeError when the table holds none
variants_unguarded(selection) ==
  LET variant == withDefault(selection, "variant", Str("primary"))
      size == withDefault(selection, "size", Str("md"))
      v == Get(variantClasses, toPropertyKey(variant))
      z == Get(sizeClasses, toPropertyKey(size))
  IN IF v.t /= "string" \/ z.t /= "string" THEN ThrowTypeError
     ELSE Return(Text(toText(baseClasses) \o <<" ">> \o toText(v) \o <<" ">> \o toText(z)))

\* variants behind a one-entry cache keyed by the variant alone
variants_cached(selection) ==
  LET variant == withDefault(selection, "variant", Str("primary"))
      size == withDefault(selection, "size", Str("md"))
  IN IF /\ last.op = "variants"
        /\ withDefault(last.arg.selection, "variant", Str("primary")) = variant
     THEN last.out
     ELSE Return(Text(
            toText(baseClasses) \o <<" ">>
            \o toText(or(Get(variantClasses, toPropertyKey(variant)), Get(variantClasses, "primary")))
            \o <<" ">>
            \o toText(or(Get(sizeClasses, toPropertyKey(size)), Get(sizeClasses, "md")))))

\* the function getButtonVariants() returns, applied to a selection
variants(selection) ==
  LET variant == withDefault(selection, "variant", Str("primary"))
      size == withDefault(selection, "size", Str("md"))
  IN Return(variantsTemplate(
       baseClasses,
       or(Get(variantClasses, toPropertyKey(variant)), Get(variantClasses, "primary")),
       or(Get(sizeClasses, toPropertyKey(size)), Get(sizeClasses, "md"))))

\* ------------------------------------------------------ utility functions
\* What the functions of shadowUtils, spacingUtils, breakpointUtils,
\* typographyUtils, zIndexUtils and borderUtils compute.  A function of more
\* than one statement is an operator here; a function that is one return
\* statement is written out in its action.

Bool(b) == [t |-> "boolean", b |-> b]

\* a number literal with a fraction, kept as its decimal text
Dec(text) == [t |-> "number", dec |-> text]

\* the characters of a string put together again
RECURSIVE concat(_)
concat(atoms) == IF atoms = <<>> THEN "" ELSE Head(atoms) \o concat(Tail(atoms))

\* String(value) as a template literal substitution applies it
RECURSIVE stringOf(_)
stringOf(value) ==
  CASE value.t = "number" ->
         IF "dec" \in DOMAIN value THEN value.dec ELSE numberToString(value)
    [] value.t = "boolean" -> IF value.b THEN "true" ELSE "false"
    [] value.t = "array" ->
         IF value.elems = <<>> THEN ""
         ELSE IF Len(value.elems) = 1 THEN stringOf(value.elems[1])
         ELSE stringOf(value.elems[1]) \o "," \o stringOf(Arr(Tail(value.elems)))
    [] OTHER -> concat(toText(value))

\* a parameter default: it applies when the argument is omitted or undefined
orDefault(arg, value) == IF arg = Undefined THEN value ELSE arg

\* a destructured property with a default, of an options object
destructured(options, key, value) == orDefault(Get(options, key), value)

\* object[key] as an expression: a TypeError on undefined and on null
Member(object, key) ==
  IF object.t \in {"undefined", "null"} THEN ThrowTypeError
  ELSE Return(Get(object, toPropertyKey(key)))

\* the property names a function has, its own and those of Function.prototype
FunctionKeys ==
  {"length", "name", "prototype", "arguments", "caller", "apply", "bind", "call",
   "toString", "constructor"} \cup ObjectPrototypeKeys

\* `key in object` as an expression: a TypeError unless object is an object
\* or a function
In(key, object) ==
  IF TypeOf(object) \notin {"object", "function"} \/ object = Null THEN ThrowTypeError
  ELSE IF object.t = "function" THEN Return(Bool(toPropertyKey(key) \in FunctionKeys))
  ELSE Return(Bool(HasProperty(object, toPropertyKey(key))))

\* the shape five utilities share: table[name], and of that the entry under
\* variant when it is an object that has one, else table[name] itself
entryOrVariant(table, name, variant) ==
  LET entry == Get(table, toPropertyKey(name))
  IN IF TypeOf(entry) /= "object" THEN Return(entry)
     ELSE IF In(variant, entry).kind = "throw" THEN ThrowTypeError
     ELSE IF In(variant, entry).value.b THEN Return(Get(entry, toPropertyKey(variant)))
     ELSE Return(entry)

\* ---- shadowUtils

\* `${x}px ${y}px ${blur}px ${spread}px rgb(${color} / ${opacity})`
shadowUtils_buildShadow(options) ==
  IF options.t \in {"undefined", "null"} THEN ThrowTypeError
  ELSE LET x == destructured(options, "x", Num(0))
           y == destructured(options, "y", Num(4))
           blur == destructured(options, "blur", Num(6))
           spread == destructured(options, "spread", Num(-1))
           color == destructured(options, "color", Str("0 0 0"))
           opacity == destructured(options, "opacity", Dec("0.1"))
       IN Return(Str(stringOf(x) \o "px " \o stringOf(y) \o "px " \o stringOf(blur) \o "px "
                     \o stringOf(spread) \o "px rgb(" \o stringOf(color) \o " / "
                     \o stringOf(opacity) \o ")"))

\* array.join(', ')
RECURSIVE joinComma(_)
joinComma(values) ==
  IF values = <<>> THEN ""
  ELSE IF Len(values) = 1 THEN stringOf(values[1])
  ELSE stringOf(values[1]) \o ", " \o joinComma(Tail(values))

\* ---- breakpointUtils

breakpointUtils_getGridColumns(pattern, breakpoint) ==
  LET gridPattern == Get(At(store.breakpoints, <<"grid", "patterns">>), toPropertyKey(pattern))
  IN IF In(breakpoint, gridPattern).kind = "throw" THEN ThrowTypeError
     ELSE IF In(breakpoint, gridPattern).value.b
          THEN Return(Get(gridPattern, toPropertyKey(breakpoint)))
          ELSE Return(Get(gridPattern, "base"))

\* `@media (${type}-width: ${size})`
breakpointUtils_buildMediaQuery(breakpoint, type) ==
  LET size == Get(At(store.breakpoints, <<"screens">>), toPropertyKey(breakpoint))
  IN Return(Str("@media (" \o stringOf(orDefault(type, Str("min"))) \o "-width: "
                \o stringOf(size) \o ")"))

breakpointUtils_getResponsiveTypography(type, variant, breakpoint) ==
  LET typographyType == Get(At(store.breakpoints, <<"typography">>), toPropertyKey(type))
      bp == orDefault(breakpoint, Str("base"))
  IN IF In(variant, typographyType).kind = "throw" THEN ThrowTypeError
     ELSE IF ~In(variant, typographyType).value.b THEN Return(Null)
     ELSE LET variantObj == Get(typographyType, toPropertyKey(variant))
          IN IF TypeOf(variantObj) /= "object" THEN Return(Null)
             ELSE IF In(bp, variantObj).kind = "throw" THEN ThrowTypeError
             ELSE IF In(bp, variantObj).value.b THEN Return(Get(variantObj, toPropertyKey(bp)))
             ELSE Return(Null)

\* the keys of breakpoints.screens in the order Object.entries lists them:
\* none is an array index, so the order they are written in
screenNames == <<"sm", "md", "lg", "xl", "2xl">>

\* the characters of each value of breakpoints.screens
screenChars ==
  ("640px" :> <<"6", "4", "0", "p", "x">>) @@
  ("768px" :> <<"7", "6", "8", "p", "x">>) @@
  ("1024px" :> <<"1", "0", "2", "4", "p", "x">>) @@
  ("1280px" :> <<"1", "2", "8", "0", "p", "x">>) @@
  ("1536px" :> <<"1", "5", "3", "6", "p", "x">>)

\* str.replace('px', ''): the first "px" is dropped
replacePx(cs) ==
  IF \E i \in 1 .. Len(cs) - 1 : cs[i] = "p" /\ cs[i + 1] = "x"
  THEN LET i == CHOOSE j \in 1 .. Len(cs) - 1 :
                  /\ cs[j] = "p" /\ cs[j + 1] = "x"
                  /\ \A k \in 1 .. j - 1 : ~(cs[k] = "p" /\ cs[k + 1] = "x")
       IN SubSeq(cs, 1, i - 1) \o SubSeq(cs, i + 2, Len(cs))
  ELSE cs

DecimalDigits == <<"0", "1", "2", "3", "4", "5", "6", "7", "8", "9">>

\* parseInt(str): the number its leading decimal digits write, NaN without any
RECURSIVE parseIntFrom(_, _, _)
parseIntFrom(cs, i, acc) ==
  IF i > Len(cs) \/ ~(\E d \in DOMAIN DecimalDigits : DecimalDigits[d] = cs[i])
  THEN (IF i = 1 THEN NaN ELSE Num(acc))
  ELSE parseIntFrom(cs, i + 1,
                    10 * acc + (CHOOSE d \in DOMAIN DecimalDigits : DecimalDigits[d] = cs[i]) - 1)

parseInt(cs) == parseIntFrom(cs, 1, 0)

breakpointUtils_getAllBreakpoints ==
  Return(Arr([i \in DOMAIN screenNames |->
    LET value == Get(At(store.breakpoints, <<"screens">>), screenNames[i])
    IN Obj(("name" :> Str(screenNames[i])) @@
           ("value" :> value) @@
           ("pixels" :> parseInt(replacePx(screenChars[value.s]))))]))

\* ---- typographyUtils

\* object?.key: undefined on undefined and on null
OptionalMember(object, key) ==
  IF object.t \in {"undefined", "null"} THEN Undefined ELSE Get(object, key)

typographyUtils_buildTextStyle(options) ==
  IF options.t \in {"undefined", "null"} THEN ThrowTypeError
  ELSE LET size == destructured(options, "size", Str("base"))
           weight == destructured(options, "weight", Str("normal"))
           color == destructured(options, "color", Str("primary"))
           lineHeight == destructured(options, "lineHeight", Str("normal"))
           letterSpacing == destructured(options, "letterSpacing", Str("normal"))
           family == destructured(options, "family", Str("sans"))
           fontSize == Get(At(store.typography, <<"fontSize">>), toPropertyKey(size))
       IN IF fontSize.t \in {"undefined", "null"} THEN ThrowTypeError
          ELSE Return(Obj(
            ("fontFamily" :> Get(At(store.typography, <<"fontFamily">>), toPropertyKey(family))) @@
            ("fontSize" :> Get(fontSize, "0")) @@
            ("lineHeight" :> or(OptionalMember(Get(fontSize, "1"), "lineHeight"),
                                Get(At(store.typography, <<"lineHeight">>),
                                    toPropertyKey(lineHeight)))) @@
            ("fontWeight" :> Get(At(store.typography, <<"fontWeight">>), toPropertyKey(weight))) @@
            ("color" :> Get(At(store.typography, <<"colors">>), toPropertyKey(color))) @@
            ("letterSpacing" :> Get(At(store.typography, <<"letterSpacing">>),
                                    toPropertyKey(letterSpacing)))))

\* ---- zIndexUtils

tailwindValues == <<0, 10, 20, 30, 40, 50>>

\* the values toTailwindClass names, each with its class
tailwindClasses ==
  <<<<-1, "z-[-1]">>, <<0, "z-0">>, <<1, "z-[1]">>, <<2, "z-[2]">>, <<5, "z-[5]">>,
    <<10, "z-10">>, <<20, "z-20">>, <<30, "z-30">>, <<40, "z-40">>, <<50, "z-50">>,
    <<9999, "z-[9999]">>, <<10000, "z-[10000]">>>>

\* the chain of `if (value === n) return ...`, then `z-[${value}]`
zIndexUtils_toTailwindClass(value) ==
  IF /\ value.t = "number"
     /\ "n" \in DOMAIN value
     /\ \E i \in DOMAIN tailwindClasses : tailwindClasses[i][1] = value.n
  THEN Return(Str(tailwindClasses[CHOOSE i \in DOMAIN tailwindClasses :
                                    tailwindClasses[i][1] = value.n][2]))
  ELSE Return(Str("z-[" \o stringOf(value) \o "]"))

\* ---- borderUtils

borderUtils_buildBorder(options) ==
  IF options.t \in {"undefined", "null"} THEN ThrowTypeError
  ELSE LET width == destructured(options, "width", Str("thin"))
           style == destructured(options, "style", Str("solid"))
           color == destructured(options, "color", Str("default"))
           radius == destructured(options, "radius", Str("md"))
           borderWidth == Get(At(store.borders, <<"width">>), toPropertyKey(width))
           borderStyle == Get(At(store.borders, <<"style">>), toPropertyKey(style))
           borderColor == Get(At(store.borders, <<"colors">>), toPropertyKey(color))
       IN Return(Obj(
            ("borderWidth" :> borderWidth) @@
            ("borderStyle" :> borderStyle) @@
            ("borderColor" :> borderColor) @@
            ("borderRadius" :> Get(At(store.borders, <<"radius">>), toPropertyKey(radius))) @@
            ("border" :> Str(stringOf(borderWidth) \o " " \o stringOf(borderStyle) \o " "
                             \o stringOf(borderColor)))))

borderUtils_getFocusRing(color) ==
  Return(Obj(
    ("outline" :> Str("none")) @@
    ("ringWidth" :> At(store.borders, <<"rings", "width", "medium">>)) @@
    ("ringColor" :> Get(At(store.borders, <<"rings", "colors">>),
                        toPropertyKey(orDefault(color, Str("focus"))))) @@
    ("ringOffset" :> At(store.borders, <<"rings", "offset", "md">>))))

\* ---------------------------------------------------- class-name utility

\* strings.join(' '): the strings with a space between each two
RECURSIVE joinTexts(_)
joinTexts(texts) ==
  IF texts = <<>> THEN <<>>
  ELSE IF Len(texts) = 1 THEN texts[1]
  ELSE texts[1] \o <<" ">> \o joinTexts(Tail(texts))

\* cn keeping every input, the falsy ones as empty strings
cn_unfiltered(classes) ==
  Text(joinTexts([i \in 1 .. Len(classes) |->
                    IF Truthy(classes[i]) THEN toText(classes[i]) ELSE <<>>]))

\* cn(...classes): classes.filter(Boolean).join(' ')
cn(classes) ==
  LET kept == SelectSeq(classes, Truthy)
  IN Text(joinTexts([i \in 1 .. Len(kept) |-> toText(kept[i])]))

\* toVal(mix) of clsx: a string or a number as it is, an array as the
\* values of its truthy elements with a space between, nothing for a
\* boolean, a function, null and undefined (the inputs here hold no object
\* with keys)
RECURSIVE toVal(_)
toVal(mix) ==
  CASE mix.t = "string" -> toText(mix)
    [] mix.t = "number" -> <<stringOf(mix)>>
    [] mix.t = "array" ->
         LET truthy == SelectSeq(mix.elems, Truthy)
             vals == [i \in 1 .. Len(truthy) |-> toVal(truthy[i])]
         IN joinTexts(SelectSeq(vals, LAMBDA v : v /= <<>>))
    [] OTHER -> <<>>

\* clsx(...args): the values of its truthy arguments with a space between
clsx(args) ==
  LET truthy == SelectSeq(args, Truthy)
      vals == [i \in 1 .. Len(truthy) |-> toVal(truthy[i])]
  IN Text(joinTexts(SelectSeq(vals, LAMBDA v : v /= <<>>)))

\* cn(...inputs) of the second utils/cn: clsx(inputs), the inputs as one array
cn_clsx(inputs) == clsx(<<Arr(inputs)>>)

\* ------------------------------------------------------ Button components
\* The repository holds two Button components, both importing cn from
\* '../../utils/cn': the one of Button.tsx, which asks getButtonVariants for
\* its classes, and one built on class-variance-authority, named ButtonCva
\* here.  Either version of utils/cn may stand behind the import.

\* the versions of utils/cn
CnVersions == {"filter", "clsx"}

cnOf(version, classes) == IF version = "filter" THEN cn(classes) ELSE cn_clsx(classes)

\* props[name]: undefined when the caller gives no such prop
Prop(props, name) == IF name \in DOMAIN props THEN props[name] ELSE Undefined

\* the props left in `...props` once the named ones are taken out
Rest(props, taken) == [name \in DOMAIN props \ taken |-> props[name]]

\* Button of Button.tsx: the element it returns
Button(props, version) ==
  LET className == Prop(props, "className")
      variant == withDefault(props, "variant", Str("primary"))
      size == withDefault(props, "size", Str("md"))
      children == Prop(props, "children")
      rest == Rest(props, {"className", "variant", "size", "children"})
      resolved == variants([variant |-> variant, size |-> size])
  IN [type |-> "button",
      props |-> rest @@ ("className" :> cnOf(version, <<resolved.value, className>>)),
      children |-> <<children>>]

\* what cva takes for one axis: nothing for null, else the entry of the
\* table under the value given or, when that is falsy, under the default
\* (falsyToString turns a boolean and 0 into their text first)
cvaVariant(table, variantProp, defaultVariantProp) ==
  LET falsyToString(value) ==
        CASE value.t = "boolean" -> Str(IF value.b THEN "true" ELSE "false")
          [] value = Num(0) -> Str("0")
          [] OTHER -> value
  IN IF variantProp = Null THEN Null
     ELSE Get(table, toPropertyKey(or(falsyToString(variantProp),
                                      falsyToString(defaultVariantProp))))

\* the tables given to cva
cvaBase ==
  Text(spaced(<<"inline-flex", "items-center", "justify-center", "rounded-md", "text-sm",
                "font-medium", "transition-colors", "focus-visible:outline-none",
                "focus-visible:ring-2", "focus-visible:ring-offset-2",
                "disabled:opacity-50", "disabled:pointer-events-none">>))

cvaVariants ==
  [variant |->
     Obj(("primary" :> Text(spaced(<<"bg-blue-600", "text-white", "hover:bg-blue-700">>))) @@
         ("secondary" :> Text(spaced(<<"bg-gray-200", "text-gray-900", "hover:bg-gray-300">>))) @@
         ("outline" :> Text(spaced(<<"border", "border-gray-300", "bg-transparent",
                                     "hover:bg-gray-100">>))) @@
         ("destructive" :> Text(spaced(<<"bg-red-600", "text-white", "hover:bg-red-700">>))) @@
         ("ghost" :> Text(spaced(<<"hover:bg-gray-100", "hover:text-gray-900">>)))),
   size |->
     Obj(("sm" :> Text(spaced(<<"h-8", "px-3", "text-xs">>))) @@
         ("md" :> Text(spaced(<<"h-10", "px-4">>))) @@
         ("lg" :> Text(spaced(<<"h-12", "px-6", "text-base">>))))]

\* buttonVariants = cva(base, {variants, defaultVariants}): the base, the
\* entry of each axis in the order the table declares them, then the
\* caller's class and className, put together by clsx
buttonVariants(props) ==
  clsx(<<cvaBase,
         Arr(<<cvaVariant(cvaVariants.variant, Prop(props, "variant"), Str("primary")),
               cvaVariant(cvaVariants.size, Prop(props, "size"), Str("md"))>>),
         Prop(props, "class"),
         Prop(props, "className")>>)

\* isDisabled taken from the disabled prop alone
isDisabled_ignoringLoading(disabled, loading) == disabled

\* const isDisabled = disabled || loading
isDisabled(disabled, loading) == or(disabled, loading)

\* the Button built on cva: the element it returns
ButtonCva(props, version) ==
  LET className == Prop(props, "className")
      variant == Prop(props, "variant")
      size == Prop(props, "size")
      asChild == withDefault(props, "asChild", Bool(FALSE))
      loading == Prop(props, "loading")
      loadingText == Prop(props, "loadingText")
      disabled == Prop(props, "disabled")
      children == Prop(props, "children")
      rest == Rest(props, {"className", "variant", "size", "asChild", "loading",
                           "loadingText", "disabled", "children"})
      classes ==
        cnOf(version,
             <<buttonVariants([variant |-> variant, size |-> size, className |-> className])>>)
      spinner ==
        [type |-> "span",
         props |-> ("className" :> Text(spaced(<<"mr-2", "h-4", "w-4", "animate-spin",
                                                 "rounded-full", "border-2", "border-current",
                                                 "border-t-transparent">>)))
                   @@ ("data-testid" :> Str("loading-spinner")),
         children |-> <<>>]
  IN IF Truthy(asChild)
     THEN [type |-> "span", props |-> [className |-> classes], children |-> <<children>>]
     ELSE [type |-> "button",
           props |-> rest @@ ("className" :> classes)
                          @@ ("disabled" :> isDisabled(disabled, loading)),
           children |->
             <<IF Truthy(loading) THEN spinner ELSE loading,
               IF Truthy(loading) /\ Truthy(loadingText) THEN loadingText ELSE children>>]

\* ---- what the host does with an element

\* the attribute of the rendered element under name: a boolean attribute
\* such as disabled is there when its prop is truthy, any other when its
\* prop is a string
Attribute(element, name) ==
  LET value == Prop(element.props, name)
  IN IF name = "disabled" THEN (IF Truthy(value) THEN Str("") ELSE Undefined)
     ELSE IF value.t = "string" THEN value ELSE Undefined

\* the element is a disabled button
Disabled(element) == element.type = "button" /\ Attribute(element, "disabled") /= Undefined

\* -------------------------------------------------------- package index

\* an object whose members are the named functions
Members(names) == Obj([name \in names |-> Fn(name)])

lightTheme ==
  Obj([colors |-> Obj([background |-> Str("#ffffff"), foreground |-> Str("#000000"),
                       primary |-> Str("#3b82f6"), secondary |-> Str("#6b7280"),
                       accent |-> Str("#8b5cf6"), muted |-> Str("#f3f4f6"),
                       border |-> Str("#e5e7eb")])])

darkTheme ==
  Obj([colors |-> Obj([background |-> Str("#000000"), foreground |-> Str("#ffffff"),
                       primary |-> Str("#60a5fa"), secondary |-> Str("#9ca3af"),
                       accent |-> Str("#a78bfa"), muted |-> Str("#1f2937"),
                       border |-> Str("#374151")])])

\* the value exports of a module of the tokens package: each exported name
\* with what it is bound to (type exports leave nothing at run time;
\* base/breakpoints is the second module held in the file of base/colors)
ModuleExports(specifier) ==
  CASE specifier = "./base/colors" ->
         [colors |-> store.colors, getColor |-> Fn("getColor"), default |-> store.colors]
    [] specifier = "./base/typography" ->
         [typography |-> store.typography, getTypography |-> Fn("getTypography"),
          typographyUtils |->
            Members({"getHeading", "getBody", "getFontFamily", "getResponsive",
                     "buildTextStyle"}),
          default |-> store.typography]
    [] specifier = "./base/spacing" ->
         [spacing |-> store.spacing, getSpacing |-> Fn("getSpacing"),
          spacingUtils |->
            Members({"getContainerPadding", "getSectionSpacing", "getGridGap",
                     "getComponentPadding"}),
          default |-> store.spacing]
    [] specifier = "./base/breakpoints" ->
         [breakpoints |-> store.breakpoints, getBreakpoint |-> Fn("getBreakpoint"),
          breakpointUtils |->
            Members({"getScreen", "getContainer", "getContentContainer", "getGridColumns",
                     "getContainerPadding", "getSectionSpacing", "buildMediaQuery",
                     "getResponsiveTypography", "isMobileFirst", "getAllBreakpoints"}),
          default |-> store.breakpoints]
    [] specifier = "./base/shadows" ->
         [shadows |-> store.shadows, getShadow |-> Fn("getShadow"),
          shadowUtils |->
            Members({"getElevation", "getComponent", "getInteractive", "getSemantic",
                     "buildShadow", "getFocusRing", "combineShadows",
                     "getTransitionShadow"}),
          default |-> store.shadows]
    [] specifier = "./base/borders" ->
         [borders |-> store.borders, getBorder |-> Fn("getBorder"),
          borderUtils |->
            Members({"getComponentBorder", "getRadius", "getColor", "getWidth",
                     "buildBorder", "getFocusRing", "getStateBorder"}),
          default |-> store.borders]
    [] specifier = "./base/zIndex" ->
         [zIndex |-> store.zIndex, getZIndex |-> Fn("getZIndex"),
          zIndexUtils |->
            Members({"getBase", "getContent", "getNavigation", "getOverlay", "getPopup",
                     "getSticky", "getComponent", "getState", "getUtility",
                     "isTailwindZIndex", "toTailwindClass", "getLayeringOrder",
                     "validateZIndex"}),
          default |-> store.zIndex]
    [] specifier = "./semantic/theme-light" -> [lightTheme |-> lightTheme]
    [] specifier = "./semantic/theme-dark" -> [darkTheme |-> darkTheme]

\* the modules the index names in its `export * from` lines, in order
indexStarExports ==
  <<"./base/colors", "./base/typography", "./base/spacing", "./base/breakpoints",
    "./semantic/theme-light", "./semantic/theme-dark">>

\* the names `export * from specifier` passes on: every export but the default one
StarNames(specifier) == DOMAIN ModuleExports(specifier) \ {"default"}

\* the `export *` lines of the index through which name comes
Providers(name) ==
  {i \in DOMAIN indexStarExports : name \in StarNames(indexStarExports[i])}

\* index[name], the member of the namespace object of the index
\* (`import * as tokens`, then tokens[name]): what the one `export *` line
\* that brings the name binds it to; a name that no line brings, or that two
\* bring, is not exported
indexGet(name) ==
  IF Cardinality(Providers(name)) = 1
  THEN ModuleExports(indexStarExports[CHOOSE i \in Providers(name) : TRUE])[name]
  ELSE Undefined

\* ------------------------------------------------------- test utilities

\* waitFor's default for timeout, in ms
defaultTimeout == 1000

\* the delay waitFor passes to setTimeout, in ms
pollDelay == 10

\* the timeout counted as exceeded from the deadline on
timedOut_atDeadline(startTime, time, timeout) == time - startTime >= timeout

\* Date.now() - startTime > timeout
timedOut(startTime, time, timeout) == time - startTime > timeout

\* check setting a timer for the next poll after it has called resolve
check_pollingOn(w, time, outcome) ==
  LET polled == [w EXCEPT !.polls = @ + 1, !.polledAt = time, !.result = outcome]
      resolve(c) ==
        [c EXCEPT !.resolves = @ + 1,
                  !.promise = IF @ = "pending" THEN "fulfilled" ELSE @]
      reject(c, reason) ==
        [c EXCEPT !.rejects = @ + 1,
                  !.promise = IF @ = "pending" THEN "rejected" ELSE @,
                  !.reason = IF c.promise = "pending" THEN reason ELSE @]
      setTimeout(c) == [c EXCEPT !.timers = Append(@, time + pollDelay)]
      late == timedOut(w.startTime, time, w.timeout)
  IN IF outcome.kind = "return"
     THEN IF outcome.value # Bool(FALSE) THEN setTimeout(resolve(polled))
          ELSE IF late THEN reject(polled, Throw("Timeout waiting for condition"))
          ELSE setTimeout(polled)
     ELSE IF late THEN reject(polled, outcome) ELSE setTimeout(polled)

\* check polling again whenever the callback throws, however late it is
check_retryingOnThrow(w, time, outcome) ==
  LET polled == [w EXCEPT !.polls = @ + 1, !.polledAt = time, !.result = outcome]
      resolve(c) ==
        [c EXCEPT !.resolves = @ + 1,
                  !.promise = IF @ = "pending" THEN "fulfilled" ELSE @]
      reject(c, reason) ==
        [c EXCEPT !.rejects = @ + 1,
                  !.promise = IF @ = "pending" THEN "rejected" ELSE @,
                  !.reason = IF c.promise = "pending" THEN reason ELSE @]
      setTimeout(c) == [c EXCEPT !.timers = Append(@, time + pollDelay)]
      late == timedOut(w.startTime, time, w.timeout)
  IN IF outcome.kind = "return"
     THEN IF outcome.value # Bool(FALSE) THEN resolve(polled)
          ELSE IF late THEN reject(polled, Throw("Timeout waiting for condition"))
          ELSE setTimeout(polled)
     ELSE setTimeout(polled)

\* one run of waitFor's check at the given time, the callback ending with outcome:
\* w is the call (its promise, its timers, what the callback did last)
check(w, time, outcome) ==
  LET polled == [w EXCEPT !.polls = @ + 1, !.polledAt = time, !.result = outcome]
      resolve(c) ==
        [c EXCEPT !.resolves = @ + 1,
                  !.promise = IF @ = "pending" THEN "fulfilled" ELSE @]
      reject(c, reason) ==
        [c EXCEPT !.rejects = @ + 1,
                  !.promise = IF @ = "pending" THEN "rejected" ELSE @,
                  !.reason = IF c.promise = "pending" THEN reason ELSE @]
      setTimeout(c) == [c EXCEPT !.timers = Append(@, time + pollDelay)]
      late == timedOut(w.startTime, time, w.timeout)
  IN IF outcome.kind = "return"
     THEN IF outcome.value # Bool(FALSE) THEN resolve(polled)
          ELSE IF late THEN reject(polled, Throw("Timeout waiting for condition"))
          ELSE setTimeout(polled)
     ELSE IF late THEN reject(polled, outcome) ELSE setTimeout(polled)

\* waitFor(callback, timeout) called at the given time, up to its return: the
\* promise's executor runs check once before waitFor returns
waitFor(timeout, time, outcome) ==
  check([promise |-> "pending", reason |-> Undefined,
         startTime |-> time,
         timeout |-> IF timeout = Undefined THEN defaultTimeout ELSE timeout.n,
         timers |-> <<>>, polls |-> 0, polledAt |-> time, result |-> outcome,
         resolves |-> 0, rejects |-> 0],
        time, outcome)

\* ---------------------------------------------------------- CI workflow

\* the jobs of .github/workflows/ci.yml: the name, the jobs needed and the steps
\* of each
workflow ==
  ("lint-and-type-check" :>
     [name |-> "Lint & Type Check", needs |-> {},
      steps |-> <<"Checkout code", "Setup Node.js", "Install dependencies", "Run ESLint",
                  "Run TypeScript check">>]) @@
  ("test" :>
     [name |-> "Unit Tests", needs |-> {},
      steps |-> <<"Checkout code", "Setup Node.js", "Install dependencies", "Run tests",
                  "Upload coverage reports">>]) @@
  ("build" :>
     [name |-> "Build Packages", needs |-> {"lint-and-type-check", "test"},
      steps |-> <<"Checkout code", "Setup Node.js", "Install dependencies", "Build packages",
                  "Upload build artifacts">>]) @@
  ("accessibility-tests" :>
     [name |-> "Accessibility Tests", needs |-> {},
      steps |-> <<"Checkout code", "Setup Node.js", "Install dependencies",
                  "Run accessibility tests">>])

\* the build job needing the lint job alone
needs_lintOnly(job) == workflow[job].needs \ {"test"}

\* needs: of a job
needs(job) == workflow[job].needs

\* ------------------------------------------------------------- inputs

MaxCalls == 3

MaxResolvers == 2

\* a path literal 'a.b.c' as a Text: its segments separated by dots
RECURSIVE dotted(_)
dotted(segments) ==
  IF segments = <<>> THEN <<>>
  ELSE LET head == IF Head(segments) = "" THEN <<>> ELSE <<Head(segments)>>
       IN IF Len(segments) = 1 THEN head
          ELSE head \o <<".">> \o dotted(Tail(segments))

\* paths no tree holds: the empty path, an unknown name, names every object inherits
CommonPaths ==
  {dotted(<<"">>), dotted(<<"nonexistent">>), dotted(<<"toString">>),
   dotted(<<"constructor">>), dotted(<<"__proto__", "__proto__">>)}

ColorPaths ==
  CommonPaths \cup
  {dotted(<<"semantic", "error", "500">>), dotted(<<"colors", "semantic", "error", "500">>),
   dotted(<<"colors", "semantic", "nonexistent">>), dotted(<<"semantic", "nonexistent">>),
   dotted(<<"primary", "950">>), dotted(<<"semantic">>), dotted(<<"semantic", "error">>),
   dotted(<<"primary", "50", "length">>), dotted(<<"primary", "">>),
   dotted(<<"", "primary", "50">>), dotted(<<"primary", "", "50">>),
   dotted(<<"primary", "hasOwnProperty">>), dotted(<<"nonexistent", "500">>)}

SpacingPaths ==
  CommonPaths \cup
  {dotted(<<"component", "md">>), dotted(<<"container", "responsive", "standard", "base">>),
   dotted(<<"container">>), dotted(<<"container", "responsive">>),
   dotted(<<"component", "nonexistent">>), dotted(<<"spacing", "component", "md">>),
   dotted(<<"component", "md", "length">>), dotted(<<"component", "valueOf">>)}

ZIndexPaths ==
  CommonPaths \cup
  {dotted(<<"base", "behind">>), dotted(<<"base", "default">>), dotted(<<"overlay", "modal">>),
   dotted(<<"maximum", "emergency">>), dotted(<<"base">>), dotted(<<"components">>),
   dotted(<<"base", "default", "toString">>), dotted(<<"base", "nonexistent">>),
   dotted(<<"zIndex", "base", "default">>)}

ShadowPaths ==
  CommonPaths \cup
  {dotted(<<"elevation", "md">>), dotted(<<"colors", "error">>),
   dotted(<<"colors", "email", "button">>),
   dotted(<<"components", "card", "interactive", "hover">>), dotted(<<"elevation">>),
   dotted(<<"components", "card">>), dotted(<<"elevation", "nonexistent">>),
   dotted(<<"shadows", "elevation", "md">>), dotted(<<"elevation", "md", "length">>)}

BorderPaths ==
  CommonPaths \cup
  {dotted(<<"width", "thin">>), dotted(<<"colors", "error">>), dotted(<<"radius", "full">>),
   dotted(<<"directional", "top", "default">>), dotted(<<"width">>),
   dotted(<<"directional", "top">>), dotted(<<"width", "nonexistent">>),
   dotted(<<"borders", "width", "thin">>)}

BreakpointPaths ==
  CommonPaths \cup
  {dotted(<<"screens", "md">>), dotted(<<"screens", "2xl">>),
   dotted(<<"grid", "columns", "mobile">>),
   dotted(<<"components", "button", "padding", "base", "y">>), dotted(<<"screens">>),
   dotted(<<"grid", "patterns", "standard">>), dotted(<<"screens", "nonexistent">>),
   dotted(<<"breakpoints", "screens", "md">>)}

TypographyPaths ==
  CommonPaths \cup
  {dotted(<<"fontFamily", "sans", "0">>), dotted(<<"fontFamily", "sans">>),
   dotted(<<"fontFamily", "sans", "length">>), dotted(<<"fontFamily", "sans", "10">>),
   dotted(<<"fontFamily", "sans", "map">>), dotted(<<"fontSize", "xs", "1", "lineHeight">>),
   dotted(<<"fontSize", "xs", "0">>), dotted(<<"fontWeight">>), dotted(<<"colors", "error">>),
   dotted(<<"fontFamily", "nonexistent">>), dotted(<<"typography", "fontFamily">>)}

\* values a caller passes for the variant axis: the table's, the stories'
\* "destructive", unknown names, inherited names, no value
VariantInputs ==
  {Str(s) : s \in {"primary", "secondary", "outline", "ghost", "destructive", "nope",
                   "toString"}} \cup {Undefined, Null}

SizeInputs ==
  {Str(s) : s \in {"sm", "md", "lg", "xl", "toString"}} \cup {Undefined}

\* the selections: each axis given or omitted
Selections ==
  {<<>>} \cup
  {[variant |-> v] : v \in VariantInputs} \cup
  {[size |-> s] : s \in SizeInputs} \cup
  {[variant |-> v, size |-> s] : v \in VariantInputs, s \in SizeInputs}

\* the modules of the tokens package, by the specifier the index would name
\* them with
ModuleSpecifiers ==
  {"./base/colors", "./base/typography", "./base/spacing", "./base/breakpoints",
   "./base/shadows", "./base/borders", "./base/zIndex",
   "./semantic/theme-light", "./semantic/theme-dark"}

\* the names a consumer may ask the index for: every export of every module
\* of the package, and a name no module has
ImportNames ==
  UNION {DOMAIN ModuleExports(specifier) : specifier \in ModuleSpecifiers} \cup {"nonexistent"}

\* what a caller passes to cn: class strings of one and two tokens, the
\* empty string, undefined, null and false
ClassValues ==
  {Text(<<"a">>), Text(<<"b">>), Text(<<"a", " ", "b">>), Text(<<>>), Undefined, Null,
   Bool(FALSE)}

MaxInputs == 2

\* the argument lists of cn
ClassLists == UNION {[1 .. n -> ClassValues] : n \in 0 .. MaxInputs}

\* an optional prop: omitted, or given with one of the values
Given(name, values) == {<<>>} \cup {(name :> v) : v \in values}

\* the children every rendered Button is given
TestChildren == ("children" :> Str("Test Button"))

\* props that choose the classes: a variant of the stories or an unknown
\* one, a size, a className (one of its own, the empty one, one that
\* repeats a token of the base)
StyleProps ==
  Given("variant", {Str(s) : s \in {"primary", "secondary", "outline", "destructive",
                                    "ghost", "nope"}})
  \cup Given("size", {Str(s) : s \in {"sm", "md", "lg"}})
  \cup {c @@ v : c \in Given("className", {Text(<<"custom-class">>), Text(<<>>),
                                           Text(<<"rounded-md">>)}),
                 v \in Given("variant", {Str("secondary")})}

Toggle == {Bool(TRUE), Bool(FALSE)}

\* the props of the Button of Button.tsx: ButtonProps has no loading and no asChild
ButtonPropsGiven ==
  {p @@ TestChildren :
     p \in StyleProps
           \cup {d @@ h : d \in Given("disabled", Toggle),
                          h \in Given("onClick", {Fn("handleClick")})}}

\* the props of the Button built on cva
ButtonCvaPropsGiven ==
  {p @@ TestChildren :
     p \in StyleProps
           \cup {l @@ d @@ a @@ h : l \in Given("loading", Toggle),
                                    d \in Given("disabled", Toggle),
                                    a \in Given("asChild", {Bool(TRUE)}),
                                    h \in Given("onClick", {Fn("handleClick")})}
           \cup {l @@ ("loadingText" :> Str("Loading...")) : l \in Given("loading", Toggle)}}

\* the polls a behaviour has instants for
MaxPolls == 3

\* what Date.now() reads at the instants the program runs at: around the call
\* and around the default timeout
Instants ==
  {k * pollDelay : k \in 0 .. MaxPolls}
    \cup {defaultTimeout + k * pollDelay : k \in 0 .. MaxPolls}

\* the timeout argument of waitFor: left out, or given
Timeouts == {Undefined, Num(-1), Num(0), Num(20)}

\* what the callback of waitFor does when invoked
CallbackOutcomes ==
  {Return(Bool(FALSE)), Return(Bool(TRUE)), Return(Undefined), Return(Num(0)),
   Throw("not yet")}

\* --------------------------------------------------------------- state

\* the token trees as the modules hold them after load
LoadedStore ==
  [colors |-> colors, spacing |-> spacing, shadows |-> shadows, borders |-> borders,
   zIndex |-> zIndex, typography |-> typography, breakpoints |-> breakpoints]

NoCall == [op |-> "none"]

\* nothing is mounted
NoElement == [by |-> "none"]

\* waitFor has not been called
NotWaiting == [promise |-> "none"]

\* no push or pull request has triggered the workflow
NoRun == [jobs |-> <<>>, artifacts |-> {}]

\* the outcome of helper op on path in the current state
Lookup(op, path) ==
  CASE op = "getColor" -> getColor(path)
    [] op = "getSpacing" -> getSpacing(path)
    [] op = "getZIndex" -> getZIndex(path)
    [] op = "getShadow" -> getShadow(path)
    [] op = "getBorder" -> getBorder(path)
    [] op = "getBreakpoint" -> getBreakpoint(path)
    [] op = "getTypography" -> getTypography(path)

PathsOf(op) ==
  CASE op = "getColor" -> ColorPaths
    [] op = "getSpacing" -> SpacingPaths
    [] op = "getZIndex" -> ZIndexPaths
    [] op = "getShadow" -> ShadowPaths
    [] op = "getBorder" -> BorderPaths
    [] op = "getBreakpoint" -> BreakpointPaths
    [] op = "getTypography" -> TypographyPaths

LookupOps ==
  {"getColor", "getSpacing", "getZIndex", "getShadow", "getBorder", "getBreakpoint",
   "getTypography"}

\* what every call answers in the current state
AnswersNow ==
  [lookup |-> [op \in LookupOps |-> [path \in PathsOf(op) |-> Lookup(op, path)]],
   variants |-> [selection \in Selections |-> variants(selection)]]

Init ==
  /\ store = LoadedStore
  /\ last = NoCall
  /\ ncalls = 0
  /\ resolvers = 0
  /\ mounted = NoElement
  /\ handled = 0
  /\ now = 0
  /\ wait = NotWaiting
  /\ run = NoRun
  /\ onLoad = AnswersNow

\* a call of op with arg ended with out; nothing else changed
Called(op, arg, out) ==
  /\ ncalls < MaxCalls
  /\ last' = [op |-> op, arg |-> arg, out |-> out]
  /\ ncalls' = ncalls + 1
  /\ UNCHANGED <<store, onLoad, resolvers, mounted, handled, now, wait, run>>

\* getColor keeping the outcome of each lookup in the colors tree
CallGetColor_memoising ==
  \E path \in ColorPaths :
    /\ ncalls < MaxCalls
    /\ last' = [op |-> "getColor", arg |-> path, out |-> getColor(path)]
    /\ ncalls' = ncalls + 1
    /\ store' = [store EXCEPT !.colors = Obj(("memo" :> getColor(path)) @@ store.colors.own)]
    /\ UNCHANGED <<onLoad, resolvers, mounted, handled, now, wait, run>>

CallGetColor == \E path \in ColorPaths : Called("getColor", path, getColor(path))

CallGetSpacing == \E path \in SpacingPaths : Called("getSpacing", path, getSpacing(path))

CallGetZIndex == \E path \in ZIndexPaths : Called("getZIndex", path, getZIndex(path))

CallGetShadow == \E path \in ShadowPaths : Called("getShadow", path, getShadow(path))

CallGetBorder == \E path \in BorderPaths : Called("getBorder", path, getBorder(path))

CallGetBreakpoint ==
  \E path \in BreakpointPaths : Called("getBreakpoint", path, getBreakpoint(path))

CallGetTypography ==
  \E path \in TypographyPaths : Called("getTypography", path, getTypography(path))

\* getButtonVariants(): a new resolver function, closing over nothing
CallGetButtonVariants ==
  /\ ncalls < MaxCalls
  /\ resolvers < MaxResolvers
  /\ resolvers' = resolvers + 1
  /\ last' = [op |-> "getButtonVariants", arg |-> <<>>, out |-> Return(Fn("variants"))]
  /\ ncalls' = ncalls + 1
  /\ UNCHANGED <<store, onLoad, mounted, handled, now, wait, run>>

\* one of the resolver functions obtained so far, applied to a selection
CallVariants ==
  \E r \in 1 .. resolvers, selection \in Selections :
    Called("variants", [resolver |-> r, selection |-> selection], variants(selection))

\* keys given to the utility functions: those the table holds, none
\* (undefined), and one no table holds
KeysWith(held) == {Str(k) : k \in held} \cup {Undefined, Str("nonexistent")}

\* the same for a function of two keys: a first key the table holds or not,
\* with a second key omitted, held or inherited
FirstKeys(held) == {Str(held), Str("nonexistent")}

SecondKeys(held) == {Undefined, Str(held), Str("constructor")}

CallShadowGetElevation ==
  \E level \in KeysWith({"md"}) :
    Called("shadowUtils.getElevation", <<level>>,
           Member(At(store.shadows, <<"elevation">>), level))

CallShadowGetComponent ==
  \E component \in FirstKeys("card") \cup {Str("modal")}, variant \in SecondKeys("interactive") :
    Called("shadowUtils.getComponent", <<component, variant>>,
           entryOrVariant(At(store.shadows, <<"components">>), component, orDefault(variant, Str("default"))))

CallShadowGetInteractive ==
  \E state \in FirstKeys("hover"), variant \in SecondKeys("strong") :
    Called("shadowUtils.getInteractive", <<state, variant>>,
           entryOrVariant(At(store.shadows, <<"interactive">>), state, orDefault(variant, Str("default"))))

CallShadowGetSemantic ==
  \E type \in FirstKeys("error"), intensity \in SecondKeys("strong") :
    Called("shadowUtils.getSemantic", <<type, intensity>>,
           Member(Get(At(store.shadows, <<"semantic">>), toPropertyKey(type)),
             orDefault(intensity, Str("moderate"))))

ShadowOptions ==
  {Undefined, Obj(<<>>), Obj(("y" :> Num(8)) @@ ("color" :> Str("239 68 68"))),
   Obj(("x" :> Num(2)) @@ ("blur" :> Num(0)) @@ ("spread" :> Num(0)) @@ ("opacity" :> Dec("0.5")))}

CallShadowBuildShadow ==
  \E options \in ShadowOptions :
    Called("shadowUtils.buildShadow", <<options>>, shadowUtils_buildShadow(options))

CallShadowGetFocusRing ==
  \E color \in KeysWith({"error"}) :
    \* `0 0 0 2px ${shadows.colors[color]}`
    Called("shadowUtils.getFocusRing", <<color>>,
           Return(Str("0 0 0 2px " \o stringOf(Get(At(store.shadows, <<"colors">>),
             toPropertyKey(orDefault(color, Str("default"))))))))

ShadowLists ==
  {<<>>, <<Str("none")>>, <<Str("0 1px 2px 0 rgb(0 0 0 / 0.05)"), Str(""), Str("0 0 0 2px red")>>}

CallShadowCombineShadows ==
  \E shadowValues \in ShadowLists :
    \* shadowValues.filter(shadow => shadow && shadow !== 'none').join(', ')
    Called("shadowUtils.combineShadows", shadowValues,
           Return(Str(joinComma(SelectSeq(shadowValues,
             LAMBDA shadow : Truthy(shadow) /\ shadow /= Str("none"))))))

CallShadowGetTransitionShadow ==
  \E shadow \in {Str("none"), Undefined} :
    Called("shadowUtils.getTransitionShadow", <<shadow>>,
           Return(Obj(("boxShadow" :> shadow) @@
             ("transition" :> At(store.shadows, <<"utilities", "transition">>)))))

CallSpacingGetContainerPadding ==
  \E breakpoint \in KeysWith({"desktop"}) :
    Called("spacingUtils.getContainerPadding", <<breakpoint>>,
           Member(At(store.spacing, <<"container">>), orDefault(breakpoint, Str("mobile"))))

CallSpacingGetSectionSpacing ==
  \E position \in FirstKeys("top") \cup {Undefined}, breakpoint \in SecondKeys("sm") :
    Called("spacingUtils.getSectionSpacing", <<position, breakpoint>>,
           Member(Get(At(store.spacing, <<"responsive", "section">>),
             toPropertyKey(orDefault(position, Str("bottom")))),
             orDefault(breakpoint, Str("base"))))

CallSpacingGetGridGap ==
  \E size \in KeysWith({"md"}) :
    Called("spacingUtils.getGridGap", <<size>>,
           Member(At(store.spacing, <<"grid">>), size))

CallSpacingGetComponentPadding ==
  \E size \in KeysWith({"md"}) :
    Called("spacingUtils.getComponentPadding", <<size>>,
           Member(At(store.spacing, <<"component">>), size))

CallBreakpointGetScreen ==
  \E size \in KeysWith({"md"}) :
    Called("breakpointUtils.getScreen", <<size>>,
           Member(At(store.breakpoints, <<"screens">>), size))

CallBreakpointGetContainer ==
  \E size \in KeysWith({"2xl", "content"}) :
    Called("breakpointUtils.getContainer", <<size>>,
           Member(At(store.breakpoints, <<"containers">>), size))

CallBreakpointGetContentContainer ==
  \E size \in KeysWith({"xs"}) :
    Called("breakpointUtils.getContentContainer", <<size>>,
           Member(At(store.breakpoints, <<"containers", "content">>), size))

CallBreakpointGetGridColumns ==
  \E pattern \in FirstKeys("standard") \cup {Str("constructor")},
     breakpoint \in {Str("lg"), Str("xs"), Undefined} :
    Called("breakpointUtils.getGridColumns", <<pattern, breakpoint>>,
           breakpointUtils_getGridColumns(pattern, breakpoint))

CallBreakpointGetContainerPadding ==
  \E pattern \in KeysWith({"standard"}) :
    Called("breakpointUtils.getContainerPadding", <<pattern>>,
           Member(At(store.breakpoints, <<"spacing", "container">>), orDefault(pattern, Str("standard"))))

CallBreakpointGetSectionSpacing ==
  \E position \in KeysWith({"top"}) :
    Called("breakpointUtils.getSectionSpacing", <<position>>,
           Member(At(store.breakpoints, <<"spacing", "section">>), orDefault(position, Str("bottom"))))

CallBreakpointBuildMediaQuery ==
  \E breakpoint \in FirstKeys("md"), type \in {Undefined, Str("max")} :
    Called("breakpointUtils.buildMediaQuery", <<breakpoint, type>>,
           breakpointUtils_buildMediaQuery(breakpoint, type))

CallBreakpointGetResponsiveTypography ==
  \E type \in FirstKeys("headings"), variant \in {Str("hero"), Str("nonexistent")},
     breakpoint \in {Undefined, Str("xl")} :
    Called("breakpointUtils.getResponsiveTypography", <<type, variant, breakpoint>>,
           breakpointUtils_getResponsiveTypography(type, variant, breakpoint))

CallBreakpointIsMobileFirst ==
  Called("breakpointUtils.isMobileFirst", <<>>,
           Return(Bool(TRUE)))

CallBreakpointGetAllBreakpoints ==
  Called("breakpointUtils.getAllBreakpoints", <<>>, breakpointUtils_getAllBreakpoints)

CallTypographyGetHeading ==
  \E level \in KeysWith({"h1"}) :
    Called("typographyUtils.getHeading", <<level>>,
           Member(At(store.typography, <<"headings">>), level))

CallTypographyGetBody ==
  \E size \in KeysWith({"large"}) :
    Called("typographyUtils.getBody", <<size>>,
           Member(At(store.typography, <<"body">>), orDefault(size, Str("default"))))

CallTypographyGetFontFamily ==
  \E family \in KeysWith({"mono"}) :
    Called("typographyUtils.getFontFamily", <<family>>,
           Member(At(store.typography, <<"fontFamily">>), orDefault(family, Str("sans"))))

CallTypographyGetResponsive ==
  \E pattern \in FirstKeys("hero"), breakpoint \in SecondKeys("sm") :
    Called("typographyUtils.getResponsive", <<pattern, breakpoint>>,
           Member(Get(At(store.typography, <<"responsive">>), toPropertyKey(pattern)),
             orDefault(breakpoint, Str("base"))))

TextStyleOptions ==
  {Undefined, Obj(<<>>), Obj(("size" :> Str("xs")) @@ ("weight" :> Str("bold"))),
   Obj(("size" :> Str("nonexistent"))),
   Obj(("color" :> Str("secondary")) @@ ("lineHeight" :> Str("none")) @@ ("family" :> Str("mono")))}

CallTypographyBuildTextStyle ==
  \E options \in TextStyleOptions :
    Called("typographyUtils.buildTextStyle", <<options>>, typographyUtils_buildTextStyle(options))

CallZIndexGetBase ==
  \E level \in KeysWith({"behind"}) :
    Called("zIndexUtils.getBase", <<level>>,
           Member(At(store.zIndex, <<"base">>), level))

CallZIndexGetContent ==
  \E level \in KeysWith({"content"}) :
    Called("zIndexUtils.getContent", <<level>>,
           Member(At(store.zIndex, <<"content">>), level))

CallZIndexGetNavigation ==
  \E level \in KeysWith({"popover"}) :
    Called("zIndexUtils.getNavigation", <<level>>,
           Member(At(store.zIndex, <<"navigation">>), level))

CallZIndexGetOverlay ==
  \E level \in KeysWith({"backdrop"}) :
    Called("zIndexUtils.getOverlay", <<level>>,
           Member(At(store.zIndex, <<"overlay">>), level))

CallZIndexGetPopup ==
  \E level \in KeysWith({"tooltip"}) :
    Called("zIndexUtils.getPopup", <<level>>,
           Member(At(store.zIndex, <<"popup">>), level))

CallZIndexGetSticky ==
  \E level \in KeysWith({"header"}) :
    Called("zIndexUtils.getSticky", <<level>>,
           Member(At(store.zIndex, <<"sticky">>), level))

CallZIndexGetComponent ==
  \E component \in FirstKeys("card"), variant \in SecondKeys("hover") :
    Called("zIndexUtils.getComponent", <<component, variant>>,
           entryOrVariant(At(store.zIndex, <<"components">>), component, orDefault(variant, Str("default"))))

CallZIndexGetState ==
  \E state \in FirstKeys("hover"), variant \in SecondKeys("card") :
    Called("zIndexUtils.getState", <<state, variant>>,
           entryOrVariant(At(store.zIndex, <<"states">>), state, orDefault(variant, Str("element"))))

CallZIndexGetUtility ==
  \E utility \in KeysWith({"hide"}) :
    Called("zIndexUtils.getUtility", <<utility>>,
           Member(At(store.zIndex, <<"utilities">>), utility))

\* z-index values asked about: named and unnamed ones, at and past both ends
ZIndexValues == {Num(-2), Num(-1), Num(7), Num(50), Num(10001), Undefined}

CallZIndexIsTailwindZIndex ==
  \E value \in ZIndexValues :
    Called("zIndexUtils.isTailwindZIndex", <<value>>,
           Return(Bool(/\ value.t = "number"
             /\ "n" \in DOMAIN value
             /\ \E i \in DOMAIN tailwindValues : tailwindValues[i] = value.n)))

CallZIndexToTailwindClass ==
  \E value \in ZIndexValues :
    Called("zIndexUtils.toTailwindClass", <<value>>, zIndexUtils_toTailwindClass(value))

CallZIndexGetLayeringOrder ==
  Called("zIndexUtils.getLayeringOrder", <<>>,
           Return(Arr(<<Str("Behind content (-1)"), Str("Default content (0)"),
             Str("Slight elevation (1-2)"), Str("Content layers (10-20)"),
             Str("Navigation (20-40)"), Str("Overlays and modals (40-50)"),
             Str("Critical alerts (9999-10000)")>>)))

CallZIndexValidateZIndex ==
  \E value \in ZIndexValues :
    \* value >= -1 && value <= 10000: false of NaN, and so of undefined
    Called("zIndexUtils.validateZIndex", <<value>>,
           Return(Bool(/\ value.t = "number"
             /\ "n" \in DOMAIN value
             /\ value.n >= -1
             /\ value.n <= 10000)))

CallBorderGetComponentBorder ==
  \E component \in FirstKeys("input"), variant \in SecondKeys("error") :
    Called("borderUtils.getComponentBorder", <<component, variant>>,
           entryOrVariant(At(store.borders, <<"components">>), component, orDefault(variant, Str("default"))))

CallBorderGetRadius ==
  \E size \in KeysWith({"lg"}) :
    Called("borderUtils.getRadius", <<size>>,
           Member(At(store.borders, <<"radius">>), size))

CallBorderGetColor ==
  \E color \in KeysWith({"subtle"}) :
    Called("borderUtils.getColor", <<color>>,
           Member(At(store.borders, <<"colors">>), color))

CallBorderGetWidth ==
  \E width \in KeysWith({"medium"}) :
    Called("borderUtils.getWidth", <<width>>,
           Member(At(store.borders, <<"width">>), width))

BorderOptions ==
  {Undefined, Obj(<<>>), Obj(("width" :> Str("thick")) @@ ("style" :> Str("dashed"))),
   Obj(("color" :> Str("nonexistent")) @@ ("radius" :> Str("lg")))}

CallBorderBuildBorder ==
  \E options \in BorderOptions :
    Called("borderUtils.buildBorder", <<options>>, borderUtils_buildBorder(options))

CallBorderGetFocusRing ==
  \E color \in KeysWith({"error"}) :
    Called("borderUtils.getFocusRing", <<color>>, borderUtils_getFocusRing(color))

CallBorderGetStateBorder ==
  \E state \in KeysWith({"focus"}) :
    Called("borderUtils.getStateBorder", <<state>>,
           Member(At(store.borders, <<"states">>), state))

\* a call of a path-lookup helper
\* a consumer reads a name from the namespace of the package index
CallImport == \E name \in ImportNames : Called("import", name, Return(indexGet(name)))

CallCn == \E classes \in ClassLists : Called("cn", classes, Return(cn(classes)))

CallCnClsx == \E inputs \in ClassLists : Called("cn_clsx", inputs, Return(cn_clsx(inputs)))

\* a Button was rendered and mounted, with a handler that has not run yet
\* (the resolver Button obtains for itself is gone when it returns)
Rendered(by, props, element) ==
  /\ ncalls < MaxCalls
  /\ mounted' = [by |-> by, props |-> props, element |-> element]
  /\ handled' = 0
  /\ last' = [op |-> by, arg |-> props, out |-> Return(element)]
  /\ ncalls' = ncalls + 1
  /\ UNCHANGED <<store, onLoad, resolvers, now, wait, run>>

RenderButton ==
  \E props \in ButtonPropsGiven, version \in CnVersions :
    Rendered("Button", props, Button(props, version))

RenderButtonCva ==
  \E props \in ButtonCvaPropsGiven, version \in CnVersions :
    Rendered("ButtonCva", props, ButtonCva(props, version))

\* the user clicks the mounted element: its onClick handler runs when it has
\* one and is not a disabled button
Click ==
  /\ mounted /= NoElement
  /\ ncalls < MaxCalls
  /\ handled' = IF /\ Prop(mounted.element.props, "onClick").t = "function"
                   /\ ~Disabled(mounted.element)
                THEN handled + 1 ELSE handled
  /\ last' = [op |-> "click", arg |-> mounted.element.type, out |-> Return(Undefined)]
  /\ ncalls' = ncalls + 1
  /\ UNCHANGED <<store, onLoad, resolvers, mounted, now, wait, run>>

\* the clock moves on
Tick ==
  /\ \E time \in Instants : time > now /\ now' = time
  /\ UNCHANGED <<store, onLoad, last, ncalls, resolvers, mounted, handled, wait, run>>

\* a test calls testUtils.waitFor; the timers it may set have an instant to fire at
CallWaitFor ==
  \E timeout \in Timeouts, outcome \in CallbackOutcomes :
    /\ wait = NotWaiting
    /\ \E time \in Instants : time >= now + waitFor(timeout, now, outcome).timeout + pollDelay
    /\ wait' = waitFor(timeout, now, outcome)
    /\ UNCHANGED <<store, onLoad, last, ncalls, resolvers, mounted, handled, now, run>>

\* the event loop runs a timer that is due: check runs again
FireTimer ==
  \E i \in 1 .. (IF wait = NotWaiting THEN 0 ELSE Len(wait.timers)),
     outcome \in CallbackOutcomes :
    /\ wait.timers[i] <= now
    /\ wait' = check([wait EXCEPT !.timers = SubSeq(@, 1, i - 1) \o SubSeq(@, i + 1, Len(@))],
                     now, outcome)
    /\ UNCHANGED <<store, onLoad, last, ncalls, resolvers, mounted, handled, now, run>>

\* a push or a pull request to master or main: a run begins, every job waiting
Trigger ==
  /\ run = NoRun
  /\ run' = [jobs |-> [job \in DOMAIN workflow |-> [status |-> "queued", step |-> 0]],
             artifacts |-> {}]
  /\ UNCHANGED <<store, onLoad, last, ncalls, resolvers, mounted, handled, now, wait>>

\* a runner takes a waiting job all of whose needed jobs have succeeded (a job
\* without `if:` runs on success() of the jobs it needs)
StartJob ==
  \E job \in DOMAIN run.jobs :
    /\ run.jobs[job].status = "queued"
    /\ \A needed \in needs(job) : run.jobs[needed].status = "success"
    /\ run' = [run EXCEPT !.jobs[job] = [status |-> "in_progress", step |-> 1]]
    /\ UNCHANGED <<store, onLoad, last, ncalls, resolvers, mounted, handled, now, wait>>

\* a waiting job one of whose needed jobs has ended otherwise than in success
\* is skipped
SkipJob ==
  \E job \in DOMAIN run.jobs :
    /\ run.jobs[job].status = "queued"
    /\ \E needed \in needs(job) : run.jobs[needed].status \in {"failure", "cancelled", "skipped"}
    /\ run' = [run EXCEPT !.jobs[job].status = "skipped"]
    /\ UNCHANGED <<store, onLoad, last, ncalls, resolvers, mounted, handled, now, wait>>

\* the step a job is at succeeds: what it uploads is stored, and the job goes on
\* to its next step or, after the last, ends in success
StepSucceeds ==
  \E job \in DOMAIN run.jobs :
    /\ run.jobs[job].status = "in_progress"
    /\ run' = [run EXCEPT
                 \* actions/upload-artifact stores the artifact it names
                 !.artifacts = @ \cup IF workflow[job].steps[run.jobs[job].step]
                                          = "Upload build artifacts"
                                       THEN {"build-artifacts"} ELSE {},
                 !.jobs[job] = IF @.step = Len(workflow[job].steps)
                               THEN [@ EXCEPT !.status = "success"]
                               ELSE [@ EXCEPT !.step = @ + 1]]
    /\ UNCHANGED <<store, onLoad, last, ncalls, resolvers, mounted, handled, now, wait>>

\* the step a job is at fails: no step of the workflow has `if:` or
\* continue-on-error, so the steps after it are skipped and the job fails
StepFails ==
  \E job \in DOMAIN run.jobs :
    /\ run.jobs[job].status = "in_progress"
    /\ run' = [run EXCEPT !.jobs[job].status = "failure"]
    /\ UNCHANGED <<store, onLoad, last, ncalls, resolvers, mounted, handled, now, wait>>

\* the run is cancelled, by hand or by a newer run of the same workflow and ref
\* (cancel-in-progress): the jobs that have not ended are cancelled
CancelRun ==
  /\ \E job \in DOMAIN run.jobs : run.jobs[job].status \in {"queued", "in_progress"}
  /\ run' = [run EXCEPT !.jobs = [job \in DOMAIN run.jobs |->
               IF run.jobs[job].status \in {"queued", "in_progress"}
               THEN [run.jobs[job] EXCEPT !.status = "cancelled"]
               ELSE run.jobs[job]]]
  /\ UNCHANGED <<store, onLoad, last, ncalls, resolvers, mounted, handled, now, wait>>

CallLookup ==
  \/ CallGetColor
  \/ CallGetSpacing
  \/ CallGetZIndex
  \/ CallGetShadow
  \/ CallGetBorder
  \/ CallGetBreakpoint
  \/ CallGetTypography

\* a call of a function of a utility object
CallUtility ==
  \/ CallShadowGetElevation
  \/ CallShadowGetComponent
  \/ CallShadowGetInteractive
  \/ CallShadowGetSemantic
  \/ CallShadowBuildShadow
  \/ CallShadowGetFocusRing
  \/ CallShadowCombineShadows
  \/ CallShadowGetTransitionShadow
  \/ CallSpacingGetContainerPadding
  \/ CallSpacingGetSectionSpacing
  \/ CallSpacingGetGridGap
  \/ CallSpacingGetComponentPadding
  \/ CallBreakpointGetScreen
  \/ CallBreakpointGetContainer
  \/ CallBreakpointGetContentContainer
  \/ CallBreakpointGetGridColumns
  \/ CallBreakpointGetContainerPadding
  \/ CallBreakpointGetSectionSpacing
  \/ CallBreakpointBuildMediaQuery
  \/ CallBreakpointGetResponsiveTypography
  \/ CallBreakpointIsMobileFirst
  \/ CallBreakpointGetAllBreakpoints
  \/ CallTypographyGetHeading
  \/ CallTypographyGetBody
  \/ CallTypographyGetFontFamily
  \/ CallTypographyGetResponsive
  \/ CallTypographyBuildTextStyle
  \/ CallZIndexGetBase
  \/ CallZIndexGetContent
  \/ CallZIndexGetNavigation
  \/ CallZIndexGetOverlay
  \/ CallZIndexGetPopup
  \/ CallZIndexGetSticky
  \/ CallZIndexGetComponent
  \/ CallZIndexGetState
  \/ CallZIndexGetUtility
  \/ CallZIndexIsTailwindZIndex
  \/ CallZIndexToTailwindClass
  \/ CallZIndexGetLayeringOrder
  \/ CallZIndexValidateZIndex
  \/ CallBorderGetComponentBorder
  \/ CallBorderGetRadius
  \/ CallBorderGetColor
  \/ CallBorderGetWidth
  \/ CallBorderBuildBorder
  \/ CallBorderGetFocusRing
  \/ CallBorderGetStateBorder

\* a call on the Button variant resolver
CallResolver ==
  \/ CallGetButtonVariants
  \/ CallVariants

Next ==
  \/ CallLookup \/ CallUtility \/ CallResolver \/ CallImport
  \/ CallCn \/ CallCnClsx
  \/ RenderButton \/ RenderButtonCva \/ Click
  \/ CallWaitFor \/ FireTimer \/ Tick
  \/ Trigger \/ StartJob \/ SkipJob \/ StepSucceeds \/ StepFails \/ CancelRun

Spec == Init /\ [][Next]_vars

\* the tokens package alone: its lookup helpers and utility functions
NextTokens == CallLookup \/ CallUtility \/ CallImport

SpecTokens == Init /\ [][NextTokens]_vars

\* the Button variant resolver, with token lookups going on beside it
NextButton == CallResolver \/ CallLookup

SpecButton == Init /\ [][NextButton]_vars

\* the class-name utility alone, in both its versions
NextCn == CallCn \/ CallCnClsx

SpecCn == Init /\ [][NextCn]_vars

\* the Button components alone: renders and clicks
NextRender == RenderButton \/ RenderButtonCva \/ Click

SpecRender == Init /\ [][NextRender]_vars

\* a test waiting for a condition
NextWaitFor == CallWaitFor \/ FireTimer \/ Tick

SpecWaitFor == Init /\ [][NextWaitFor]_vars

\* the same, with a clock that advances and an event loop that runs the timers
\* that are due
LiveWaitFor == SpecWaitFor /\ WF_vars(Tick) /\ WF_vars(FireTimer)

\* a run of the CI workflow
NextCI == Trigger \/ StartJob \/ SkipJob \/ StepSucceeds \/ StepFails \/ CancelRun

SpecCI == Init /\ [][NextCI]_vars

\* ------------------------------------------------ what the claims speak of

\* the category tree a lookup helper starts from, as loaded
TreeOf(op) ==
  CASE op = "getColor" -> colors
    [] op = "getSpacing" -> spacing
    [] op = "getZIndex" -> zIndex
    [] op = "getShadow" -> shadows
    [] op = "getBorder" -> borders
    [] op = "getBreakpoint" -> breakpoints
    [] op = "getTypography" -> typography

\* the segments of a path as the claims read it: the names between the dots
RECURSIVE SegmentsOf(_)
SegmentsOf(path) ==
  IF path = <<>> THEN <<"">>
  ELSE IF Head(path) = "." THEN <<"">> \o SegmentsOf(Tail(path))
  ELSE IF Len(path) = 1 THEN <<Head(path)>>
  ELSE IF path[2] = "." THEN <<Head(path)>> \o SegmentsOf(Tail(Tail(path)))
  ELSE SegmentsOf(<<path[1] \o path[2]>> \o Tail(Tail(path)))

\* the entries a node of a token tree holds: the members of an object
\* literal, the elements and the length of an array literal
Entries(node) ==
  CASE node.t = "object" -> DOMAIN node.own
    [] node.t = "array" -> IndexKeys(node) \cup {"length"}
    [] OTHER -> {}

\* following the segments through the entries of the tree: where that ends,
\* or that some segment is absent at the point it is reached
RECURSIVE Follow(_, _)
Follow(node, segments) ==
  IF segments = <<>> THEN [present |-> TRUE, value |-> node]
  ELSE IF Head(segments) \in Entries(node)
       THEN Follow(Get(node, Head(segments)), Tail(segments))
       ELSE [present |-> FALSE]

\* text occurs in message as a run of consecutive atoms
Contains(message, text) ==
  \E i \in 1 .. Len(message) - Len(text) + 1 :
    SubSeq(message, i, i + Len(text) - 1) = text

IsNotFound(out) ==
  /\ out.kind = "throw"
  /\ out.message /= <<>>
  /\ out.message[Len(out.message)] = "\" not found"

IsTypeError(out) ==
  /\ out.kind = "throw"
  /\ out.message /= <<>>
  /\ out.message[Len(out.message)] \in
       {"\" does not resolve to a string value", "\" does not resolve to a number value"}

LastIsLookup == last.op \in LookupOps

\* ------------------------------------------------------------------ C1

\* C1: a lookup of a path of which some segment is absent from the token tree
\* at the point it is reached fails with the not-found error, whose message
\* contains the path as given; it returns nothing.
C1_AbsentSegmentIsNotFound ==
  (LastIsLookup /\ ~Follow(TreeOf(last.op), SegmentsOf(last.arg)).present)
    => (IsNotFound(last.out) /\ Contains(last.out.message, last.arg))

\* ------------------------------------------------------------------ C2

\* C2: a lookup of a path whose segments all exist and that ends on a nested
\* object fails with the type error; it does not return the subtree.
C2_SubtreeIsTypeError ==
  (/\ LastIsLookup
   /\ Follow(TreeOf(last.op), SegmentsOf(last.arg)).present
   /\ Follow(TreeOf(last.op), SegmentsOf(last.arg)).value.t = "object")
    => IsTypeError(last.out)

\* ------------------------------------------------------------------ C3

\* the values ButtonProps allows for each axis, and the axis defaults
AllowedVariants == {"primary", "secondary", "outline", "ghost"}

AllowedSizes == {"sm", "md", "lg"}

\* the axis value the resolver is to use: the one given when it is allowed,
\* else the default
Effective(selection, axis, allowed, default) ==
  IF /\ axis \in DOMAIN selection
     /\ selection[axis].t = "string"
     /\ selection[axis].s \in allowed
  THEN selection[axis].s ELSE default

\* the class tokens of a class list, in order
ClassTokens(atoms) == SelectSeq(atoms, LAMBDA a : a /= " ")

LastIsVariants == last.op = "variants"

\* C3: an axis that is omitted, or given a value that is not one of its
\* allowed values, takes its default (variant primary, size md): the output
\* is the base, the fragment of the effective variant and that of the
\* effective size.
C3_UnknownValueUsesDefault ==
  LastIsVariants =>
    LET sel == last.arg.selection
        v == Effective(sel, "variant", AllowedVariants, "primary")
        z == Effective(sel, "size", AllowedSizes, "md")
    IN /\ last.out.kind = "return"
       /\ last.out.value =
            Text(baseClasses.atoms \o <<" ">> \o variantClasses.own[v].atoms
                 \o <<" ">> \o sizeClasses.own[z].atoms)

\* ------------------------------------------------------------------ C4

\* C4: for every selection, the empty one and those with unknown or missing
\* axis values included, the resolver returns a style descriptor, a string,
\* and raises nothing.
C4_ResolverReturnsDescriptor ==
  LastIsVariants =>
    /\ last.out.kind = "return"
    /\ last.out.value.t = "string"
    /\ last.out.value.atoms /= <<>>

\* the resolver has answered a selection that omits the size and names an
\* unknown variant
C4_Witness ==
  /\ LastIsVariants
  /\ DOMAIN last.arg.selection = {"variant"}
  /\ last.arg.selection["variant"] = Str("nope")
  /\ last.out.kind = "return"

\* ------------------------------------------------------------------ C5

\* the places of the class tokens of a fragment in the output tokens
Places(tokens, fragment) ==
  {i \in 1 .. Len(tokens) : \E j \in 1 .. Len(fragment) : tokens[i] = fragment[j]}

\* the axis takes a fragment of the table: its default, or an entry of the table
TakesFragment(selection, axis, table) ==
  \/ axis \notin DOMAIN selection
  \/ selection[axis] = Undefined
  \/ toPropertyKey(selection[axis]) \in DOMAIN table.own
  \/ ~HasProperty(table, toPropertyKey(selection[axis]))

FragmentTaken(selection, axis, table, default) ==
  IF /\ axis \in DOMAIN selection
     /\ selection[axis] /= Undefined
     /\ toPropertyKey(selection[axis]) \in DOMAIN table.own
  THEN ClassTokens(table.own[toPropertyKey(selection[axis])].atoms)
  ELSE ClassTokens(table.own[default].atoms)

\* C5: the output lists the base first, then the variant fragment, then the
\* size fragment, for every selection: every token of the variant fragment
\* stands after the base and before every token of the size fragment, which
\* ends the output.
C5_FragmentOrder ==
  (LastIsVariants /\ last.out.kind = "return") =>
    LET sel == last.arg.selection
        tokens == ClassTokens(last.out.value.atoms)
        base == ClassTokens(baseClasses.atoms)
        vf == FragmentTaken(sel, "variant", variantClasses, "primary")
        zf == FragmentTaken(sel, "size", sizeClasses, "md")
    IN /\ SubSeq(tokens, 1, Len(base)) = base
       /\ TakesFragment(sel, "variant", variantClasses)
            => SubSeq(tokens, Len(base) + 1, Len(base) + Len(vf)) = vf
       /\ TakesFragment(sel, "size", sizeClasses)
            => SubSeq(tokens, Len(tokens) - Len(zf) + 1, Len(tokens)) = zf
       /\ (TakesFragment(sel, "variant", variantClasses) /\ TakesFragment(sel, "size", sizeClasses))
            => /\ Len(tokens) = Len(base) + Len(vf) + Len(zf)
               /\ \A i \in Places(tokens, vf), j \in Places(tokens, zf) : i < j
               /\ \A i \in Places(tokens, base), j \in Places(tokens, vf) : i < j

\* the resolver has answered primary and sm, whose fragments both carry a
\* text-* token: text-white of the variant stands before text-sm of the size
C5_Witness ==
  /\ LastIsVariants
  /\ last.arg.selection = [variant |-> Str("primary"), size |-> Str("sm")]
  /\ LET tokens == ClassTokens(last.out.value.atoms)
     IN \E i, j \in 1 .. Len(tokens) :
          tokens[i] = "text-white" /\ tokens[j] = "text-sm" /\ i < j

\* ------------------------------------------------------------------ C6

\* C6: the output holds no class token twice.
C6_NoDuplicateTokens ==
  (LastIsVariants /\ last.out.kind = "return") =>
    LET tokens == ClassTokens(last.out.value.atoms)
    IN \A i, j \in 1 .. Len(tokens) : tokens[i] = tokens[j] => i = j

\* ------------------------------------------------------------------ C7

PrefixedErrorPath == <<"colors", ".", "semantic", ".", "error", ".", "500">>

RelativeErrorPath == <<"semantic", ".", "error", ".", "500">>

\* C8 as stated: the lookup of 'colors.semantic.error.500' returns '#ef4444'.
C8_PrefixedPathReturnsHex ==
  (last.op = "getColor" /\ last.arg = PrefixedErrorPath) => last.out = Return(Str("#ef4444"))

\* C8, amended: the colour lookup takes its path from inside the colors tree.
\* The lookup of 'semantic.error.500' returns the string '#ef4444'; with the
\* tree's own name in front, 'colors.semantic.error.500', the first segment
\* is absent and the lookup fails with the not-found error.
C8_RelativePathReturnsHex ==
  /\ (last.op = "getColor" /\ last.arg = RelativeErrorPath)
       => last.out = Return(Str("#ef4444"))
  /\ (last.op = "getColor" /\ last.arg = PrefixedErrorPath) => IsNotFound(last.out)

C8_Witness ==
  /\ last.op = "getColor"
  /\ last.arg = RelativeErrorPath
  /\ last.out.kind = "return"
  /\ last.out.value.t = "string"

\* ------------------------------------------------------------------ C9

\* the call made last was one of a function of shadowUtils, spacingUtils,
\* breakpointUtils, typographyUtils, zIndexUtils or borderUtils
LastIsUtility ==
  last.op \notin LookupOps \cup {"none", "getButtonVariants", "variants", "import"}

\* C9: the token trees are never mutated after load.  After any sequence of
\* calls of the lookup helpers and of the functions of the six utility
\* objects, those that end in an error included, every token tree is equal
\* to the tree the module defined.
C9_TreesNeverMutated ==
  /\ store.colors = colors
  /\ store.spacing = spacing
  /\ store.shadows = shadows
  /\ store.borders = borders
  /\ store.zIndex = zIndex
  /\ store.typography = typography
  /\ store.breakpoints = breakpoints

C9_Witness ==
  /\ ncalls = MaxCalls
  /\ LastIsUtility
  /\ last.out.kind = "throw"
  /\ store = LoadedStore

\* ----------------------------------------------------------------- C10

\* C10: token lookup is deterministic.  Whatever calls went before, a lookup
\* helper ends a path the way it ended that path at load: with the same
\* value, or with the same error and the same message.  So repeated calls
\* of a helper with a path all end the same way.
C10_LookupDeterministic ==
  LastIsLookup => last.out = onLoad.lookup[last.op][last.arg]

C10_Witness ==
  /\ ncalls = MaxCalls
  /\ last.op = "getColor"
  /\ last.arg = <<"semantic", ".", "nonexistent">>
  /\ last.out.kind = "throw"

\* ----------------------------------------------------------------- C11

\* the names of the token category trees
TreeNames == DOMAIN LoadedStore

\* C11: every token category tree (colors, spacing, shadows, borders, zIndex,
\* typography, breakpoints) is reachable from the package index under its
\* own name, through exactly one binding: reading the name of a tree from
\* the index gives that tree, and one `export *` line alone brings it.
C11_EveryTreeExported ==
  (last.op = "import" /\ last.arg \in TreeNames) =>
    /\ last.out = Return(store[last.arg])
    /\ Cardinality(Providers(last.arg)) = 1

\* ----------------------------------------------------------------- C13

\* the axis values the Button stories offer in their controls
StoryVariants == {"primary", "secondary", "outline", "destructive", "ghost"}

StorySizes == {"sm", "md", "lg"}

\* the selection gives the axis an allowed value for which the table holds
\* no fragment
LacksFragment(selection, axis, allowed, table) ==
  /\ axis \in DOMAIN selection
  /\ selection[axis].t = "string"
  /\ selection[axis].s \in allowed
  /\ selection[axis].s \notin DOMAIN table.own

CvaMounted == mounted.by = "ButtonCva"

\* the prop was given as true
IsTrue(props, name) == Prop(props, name) = Bool(TRUE)

\* C14: while the loading prop is true, whatever the disabled prop, and
\* likewise while the disabled prop is true, the button element that was
\* rendered is disabled and no click on what was rendered has run the
\* onClick handler.
C14_LoadingOrDisabledNeverClicks ==
  (CvaMounted /\ (IsTrue(mounted.props, "loading") \/ IsTrue(mounted.props, "disabled"))) =>
    /\ mounted.element.type = "button" => Disabled(mounted.element)
    /\ handled = 0

\* a loading button with an onClick handler and disabled given as false was
\* rendered as a button element and clicked
C14_Witness ==
  /\ CvaMounted
  /\ last.op = "click"
  /\ mounted.element.type = "button"
  /\ IsTrue(mounted.props, "loading")
  /\ Prop(mounted.props, "disabled") = Bool(FALSE)
  /\ Prop(mounted.props, "onClick") = Fn("handleClick")
  /\ handled = 0

\* ----------------------------------------------------------------- C15

\* C15: while the loading prop is true, the rendered button element carries
\* the attribute aria-disabled="true".
C15_LoadingIsAriaDisabled ==
  (CvaMounted /\ IsTrue(mounted.props, "loading") /\ mounted.element.type = "button") =>
    Attribute(mounted.element, "aria-disabled") = Str("true")

\* ----------------------------------------------------------------- C16

\* the class tokens of the mounted element
RenderedTokens ==
  LET tokens == ClassTokens(mounted.element.props["className"].atoms)
  IN {tokens[i] : i \in 1 .. Len(tokens)}

\* the tokens the Button tests look for, by variant and by size
VariantTokens ==
  [primary |-> {"bg-blue-600", "text-white"},
   secondary |-> {"bg-gray-200", "text-gray-900"},
   outline |-> {"border", "border-gray-300", "bg-transparent"},
   destructive |-> {"bg-red-600", "text-white"},
   ghost |-> {"hover:bg-gray-100"}]

SizeTokens ==
  [sm |-> {"h-8", "px-3", "text-xs"},
   md |-> {"h-10", "px-4"},
   lg |-> {"h-12", "px-6", "text-base"}]

\* C16: a Button rendered with one of the variants primary, secondary,
\* outline, destructive and ghost carries that variant's own tokens in its
\* class list.
C16_VariantTokensRendered ==
  (/\ mounted /= NoElement
   /\ Prop(mounted.props, "variant").t = "string"
   /\ Prop(mounted.props, "variant").s \in DOMAIN VariantTokens) =>
    VariantTokens[mounted.props["variant"].s] \subseteq RenderedTokens

\* ----------------------------------------------------------------- C17

\* C17: a Button rendered with one of the sizes sm, md and lg carries that
\* size's tokens in its class list.
C17_SizeTokensRendered ==
  (/\ mounted /= NoElement
   /\ Prop(mounted.props, "size").t = "string"
   /\ Prop(mounted.props, "size").s \in DOMAIN SizeTokens) =>
    SizeTokens[mounted.props["size"].s] \subseteq RenderedTokens

\* ----------------------------------------------------------------- C18

\* the selection the caller's props make: the axes as they were given
SelectionOf(props) == [axis \in DOMAIN props \cap {"variant", "size"} |-> props[axis]]

LastIsCn == last.op \in {"cn", "cn_clsx"}

\* the class tokens of the inputs of a call of cn, truthy or falsy
TokensOf(classes, truthy) ==
  UNION {IF Truthy(classes[i]) = truthy /\ classes[i].t = "string"
         THEN {ClassTokens(classes[i].atoms)[j] : j \in 1 .. Len(ClassTokens(classes[i].atoms))}
         ELSE {} : i \in 1 .. Len(classes)}

\* C19: for every list of inputs the result of cn holds each class token of
\* the truthy inputs, nothing else (nothing from undefined, null, false or
\* the empty string), and no class token more than once.
C19_CombinesAndDeduplicates ==
  LastIsCn =>
    LET tokens == ClassTokens(last.out.value.atoms)
    IN /\ last.out.kind = "return"
       /\ {tokens[i] : i \in 1 .. Len(tokens)} = TokensOf(last.arg, TRUE)
       /\ \A i, j \in 1 .. Len(tokens) : tokens[i] = tokens[j] => i = j

\* ----------------------------------------------------------------- C20

\* the lookup helpers that declare the type of what they return
TypedOps == {"getColor", "getSpacing", "getZIndex"}

DeclaredType(op) == IF op = "getZIndex" THEN "number" ELSE "string"

\* C20: getColor and getSpacing return only strings and getZIndex only
\* numbers; no outcome is both errors; the not-found error is raised exactly
\* when some segment of the path is absent from the tree where it is
\* reached, and the type error exactly when every segment is present and the
\* value reached is of another type than the declared one.
C20_TypedAndExclusive ==
  last.op \in TypedOps =>
    LET found == Follow(TreeOf(last.op), SegmentsOf(last.arg))
    IN /\ last.out.kind = "return" => TypeOf(last.out.value) = DeclaredType(last.op)
       /\ ~(IsNotFound(last.out) /\ IsTypeError(last.out))
       /\ IsNotFound(last.out) <=> ~found.present
       /\ IsTypeError(last.out) <=>
            (found.present /\ TypeOf(found.value) /= DeclaredType(last.op))

\* ----------------------------------------------------------------- C21

\* waitFor has been called
Waiting == wait # NotWaiting

\* the promise of waitFor is fulfilled or rejected
Settled == Waiting /\ wait.promise \in {"fulfilled", "rejected"}

\* C21: the promise of waitFor is settled at most once. In every step, after
\* it resolve and reject have been called at most once together, and a settled
\* promise has no timer left; and from a state where the promise is settled no
\* step invokes the callback, sets a timer or changes how the promise ended.
C21_SettlesAtMostOnce ==
  [][/\ Waiting' => /\ wait'.resolves + wait'.rejects <= 1
                    /\ Settled' => wait'.timers = <<>>
     /\ Settled => /\ wait'.polls = wait.polls
                   /\ wait'.timers = wait.timers
                   /\ wait'.promise = wait.promise
                   /\ wait'.reason = wait.reason]_vars

\* the promise was rejected on a later poll, and the clock has moved on since
C21_Witness ==
  /\ Settled
  /\ wait.promise = "rejected"
  /\ wait.polls >= 2
  /\ now > wait.polledAt

\* ----------------------------------------------------------------- C22

\* this step runs check: the callback is invoked once more
Polls == Waiting' /\ wait'.polls = (IF Waiting THEN wait.polls ELSE 0) + 1

\* the callback returned, and what it returned is not false
Succeeded(w) == w.result.kind = "return" /\ w.result.value # Bool(FALSE)

\* more than timeout ms had passed since the call when the callback was invoked last
Late(w) == w.polledAt - w.startTime > w.timeout

Rejects == Waiting' /\ wait'.promise = "rejected" /\ ~(Waiting /\ wait.promise = "rejected")

\* C23: waitFor rejects only on a poll made more than timeout ms after the call
\* on which the callback returned false or threw; the reason is the error
\* 'Timeout waiting for condition' in the first case and what the callback threw
\* on that poll in the second; and a poll on which the callback succeeds
\* fulfils the promise although the timeout is exceeded.
C23_RejectsOnlyLate ==
  [][/\ Rejects => /\ Polls
                   /\ wait'.polls >= 1
                   /\ Late(wait')
                   /\ ~Succeeded(wait')
                   /\ wait'.reason = IF wait'.result.kind = "return"
                                     THEN Throw("Timeout waiting for condition")
                                     ELSE wait'.result
     /\ Polls /\ Succeeded(wait') /\ Late(wait') => wait'.promise = "fulfilled"]_vars

\* the promise was rejected with what the callback threw on the last of several polls
C23_Witness ==
  /\ Waiting
  /\ wait.promise = "rejected"
  /\ wait.reason = Throw("not yet")
  /\ wait.polls >= 2
  /\ Late(wait)

\* ----------------------------------------------------------------- C24

\* the shadow tokens that shadows.ts derives from a colour token: where the token
\* is, the colour it is derived from, and what the source writes before the
\* colour and as its alpha
DerivedShadows ==
  {[path |-> <<"colors", "primary">>, color |-> <<"primary", "950">>, offsets |-> "", alpha |-> "0.1"],
   [path |-> <<"colors", "secondary">>, color |-> <<"secondary", "500">>, offsets |-> "", alpha |-> "0.1"],
   [path |-> <<"colors", "success">>, color |-> <<"semantic", "success", "500">>, offsets |-> "", alpha |-> "0.2"],
   [path |-> <<"colors", "error">>, color |-> <<"semantic", "error", "500">>, offsets |-> "", alpha |-> "0.2"],
   [path |-> <<"colors", "warning">>, color |-> <<"semantic", "warning", "500">>, offsets |-> "", alpha |-> "0.2"],
   [path |-> <<"colors", "info">>, color |-> <<"semantic", "info", "500">>, offsets |-> "", alpha |-> "0.2"],
   [path |-> <<"interactive", "focus", "default">>, color |-> <<"primary", "950">>, offsets |-> "0 0 0 3px ", alpha |-> "0.1"],
   [path |-> <<"interactive", "focus", "error">>, color |-> <<"semantic", "error", "500">>, offsets |-> "0 0 0 3px ", alpha |-> "0.1"],
   [path |-> <<"interactive", "focus", "success">>, color |-> <<"semantic", "success", "500">>, offsets |-> "0 0 0 3px ", alpha |-> "0.1"],
   [path |-> <<"semantic", "success", "subtle">>, color |-> <<"semantic", "success", "500">>, offsets |-> "0 1px 3px 0 ", alpha |-> "0.1"],
   [path |-> <<"semantic", "success", "moderate">>, color |-> <<"semantic", "success", "500">>, offsets |-> "0 4px 6px -1px ", alpha |-> "0.1"],
   [path |-> <<"semantic", "success", "strong">>, color |-> <<"semantic", "success", "500">>, offsets |-> "0 10px 15px -3px ", alpha |-> "0.2"],
   [path |-> <<"semantic", "error", "subtle">>, color |-> <<"semantic", "error", "500">>, offsets |-> "0 1px 3px 0 ", alpha |-> "0.1"],
   [path |-> <<"semantic", "error", "moderate">>, color |-> <<"semantic", "error", "500">>, offsets |-> "0 4px 6px -1px ", alpha |-> "0.1"],
   [path |-> <<"semantic", "error", "strong">>, color |-> <<"semantic", "error", "500">>, offsets |-> "0 10px 15px -3px ", alpha |-> "0.2"],
   [path |-> <<"semantic", "warning", "subtle">>, color |-> <<"semantic", "warning", "500">>, offsets |-> "0 1px 3px 0 ", alpha |-> "0.1"],
   [path |-> <<"semantic", "warning", "moderate">>, color |-> <<"semantic", "warning", "500">>, offsets |-> "0 4px 6px -1px ", alpha |-> "0.1"],
   [path |-> <<"semantic", "warning", "strong">>, color |-> <<"semantic", "warning", "500">>, offsets |-> "0 10px 15px -3px ", alpha |-> "0.2"],
   [path |-> <<"semantic", "info", "subtle">>, color |-> <<"semantic", "info", "500">>, offsets |-> "0 1px 3px 0 ", alpha |-> "0.1"],
   [path |-> <<"semantic", "info", "moderate">>, color |-> <<"semantic", "info", "500">>, offsets |-> "0 4px 6px -1px ", alpha |-> "0.1"],
   [path |-> <<"semantic", "info", "strong">>, color |-> <<"semantic", "info", "500">>, offsets |-> "0 10px 15px -3px ", alpha |-> "0.2"],
   [path |-> <<"components", "form", "inputFocus">>, color |-> <<"primary", "950">>, offsets |-> "0 0 0 2px ", alpha |-> "0.1"],
   [path |-> <<"components", "form", "inputError">>, color |-> <<"semantic", "error", "500">>, offsets |-> "0 0 0 2px ", alpha |-> "0.1"],
   [path |-> <<"special", "glow", "primary">>, color |-> <<"primary", "950">>, offsets |-> "0 0 20px ", alpha |-> "0.3"],
   [path |-> <<"special", "glow", "success">>, color |-> <<"semantic", "success", "500">>, offsets |-> "0 0 20px ", alpha |-> "0.3"],
   [path |-> <<"special", "glow", "error">>, color |-> <<"semantic", "error", "500">>, offsets |-> "0 0 20px ", alpha |-> "0.3"],
   [path |-> <<"special", "glow", "warning">>, color |-> <<"semantic", "warning", "500">>, offsets |-> "0 0 20px ", alpha |-> "0.3"],
   [path |-> <<"special", "glow", "info">>, color |-> <<"semantic", "info", "500">>, offsets |-> "0 0 20px ", alpha |-> "0.3"],
   [path |-> <<"utilities", "ring">>, color |-> <<"primary", "950">>, offsets |-> "0 0 0 2px ", alpha |-> "0.1"],
   [path |-> <<"utilities", "ringError">>, color |-> <<"semantic", "error", "500">>, offsets |-> "0 0 0 2px ", alpha |-> "0.1"],
   [path |-> <<"utilities", "ringSuccess">>, color |-> <<"semantic", "success", "500">>, offsets |-> "0 0 0 2px ", alpha |-> "0.1"]}

\* the decimal numeral of the i-th pair of hex digits of '#RRGGBB'
Channel(hex, i) == ToString(16 * HexValue(hex[2 * i]) + HexValue(hex[2 * i + 1]))

\* the token is the text before the colour, then 'rgb(R G B / a)'
HasRgbForm(d) ==
  LET hex == chars[At(store.colors, d.color).s]
      token == At(store.shadows, d.path)
  IN /\ Len(hex) = 7
     /\ hex[1] = "#"
     /\ \A i \in 2 .. 7 : IsHexDigit(hex[i])
     /\ \A i \in 1 .. 3 : 16 * HexValue(hex[2 * i]) + HexValue(hex[2 * i + 1]) \in 0 .. 255
     /\ token = Str(d.offsets \o "rgb(" \o Channel(hex, 1) \o " " \o Channel(hex, 2) \o " "
                      \o Channel(hex, 3) \o " / " \o d.alpha \o ")")
     /\ token # Str(d.offsets \o "rgb(undefined / " \o d.alpha \o ")")

\* C24: every shadow token derived from a hex colour token '#RRGGBB' holds
\* 'rgb(R G B / a)', R, G and B being the decimal numerals of the three hex pairs
\* in order with single spaces between them, and never 'undefined'; the one
\* derived from colors.semantic.error[500] = '#ef4444' is 'rgb(239 68 68 / 0.2)',
\* and that is what getShadow answers for it.
C24_DerivedShadowsAreRgb ==
  /\ \A d \in DerivedShadows : HasRgbForm(d)
  /\ At(store.colors, <<"semantic", "error", "500">>) = Str("#ef4444")
  /\ At(store.shadows, <<"colors", "error">>) = Str("rgb(239 68 68 / 0.2)")
  /\ last.op = "getShadow" /\ last.arg = dotted(<<"colors", "error">>)
       => last.out = Return(Str("rgb(239 68 68 / 0.2)"))

\* the error colour shadow has been looked up
C24_Witness ==
  /\ last.op = "getShadow"
  /\ last.arg = dotted(<<"colors", "error">>)
  /\ last.out = Return(At(store.shadows, <<"colors", "error">>))
  /\ HasRgbForm([path |-> <<"colors", "error">>, color |-> <<"semantic", "error", "500">>,
                 offsets |-> "", alpha |-> "0.2"])

\* ----------------------------------------------------------------- C25

\* the workflow has been triggered
Running == run # NoRun

\* the job has been given to a runner in this run
Started(job) == Running /\ run.jobs[job].step >= 1

\* how the job stands in this run
StatusOf(job) == run.jobs[job].status

\* C25: in a run of the CI workflow the job 'Build Packages' is started only
\* when 'Lint & Type Check' and 'Unit Tests' have both ended in success; when
\* either of them has failed or been cancelled the build job has not started
\* and no build artifact has been uploaded, and an artifact is only ever
\* uploaded by a build job that was started.
C25_BuildNeedsLintAndTests ==
  Running =>
    /\ workflow["build"].name = "Build Packages"
    /\ workflow["lint-and-type-check"].name = "Lint & Type Check"
    /\ workflow["test"].name = "Unit Tests"
    /\ Started("build") => StatusOf("lint-and-type-check") = "success" /\ StatusOf("test") = "success"
    /\ (\E job \in {"lint-and-type-check", "test"} : StatusOf(job) \in {"failure", "cancelled"})
         => ~Started("build") /\ run.artifacts = {}
    /\ run.artifacts # {} => Started("build")

\* the unit tests failed after the lint job had succeeded, and the build job was skipped
C25_Witness ==
  /\ Running
  /\ StatusOf("lint-and-type-check") = "success"
  /\ StatusOf("test") = "failure"
  /\ StatusOf("build") = "skipped"
  /\ run.artifacts = {}

====
